---- MODULE Spec2Model ----
(***************************************************************************)
(* Workflow execution engine of AutoAgent (EnhancedWorkflowExecutor), its  *)
(* store adapter, its two progress-notifier backends, the capability       *)
(* registry, the authorization gate of the chat handler and the callers    *)
(* that start a run (chat handler, OAuth callback, execute-pending route). *)
(*                                                                         *)
(* One step of a run is the completion of the await it is suspended on     *)
(* followed by the synchronous code up to the next await: asyncio only     *)
(* switches tasks at an await, tool.run and the store calls are blocking.  *)
(***************************************************************************)
EXTENDS Integers, Sequences, FiniteSets, TLC

(***************************************************************************)
(* Bounds of the model.                                                    *)
(***************************************************************************)
MaxTasks == 2
MaxRuns == 1
MaxRouteCalls == 1

MaxWorkflows == 1

(***************************************************************************)
(* Values of a task field.  A task is a dict; NoVal stands for a key that  *)
(* is absent.                                                              *)
(***************************************************************************)
NoVal == "<absent>"

SendTask ==
  [action |-> "email", mode |-> "send", recipient |-> "a@b.com", subject |-> "Hi", query |-> NoVal]
ReadTask ==
  [action |-> "email", mode |-> "read", recipient |-> NoVal, subject |-> NoVal, query |-> "from:x"]
PlaceholderTask ==
  [action |-> "email", mode |-> "send", recipient |-> "recipient@example.com", subject |-> "Subject", query |-> NoVal]
FaxTask ==
  [action |-> "fax", mode |-> "send", recipient |-> NoVal, subject |-> NoVal, query |-> NoVal]
NoModeTask ==
  [action |-> "email", mode |-> NoVal, recipient |-> "a@b.com", subject |-> "Hi", query |-> NoVal]

NoActionTask ==
  [action |-> NoVal, mode |-> "send", recipient |-> "a@b.com", subject |-> "Hi", query |-> NoVal]

TaskKinds == {SendTask, ReadTask, PlaceholderTask, FaxTask, NoModeTask, NoActionTask}

TaskLists == UNION {[1..n -> TaskKinds] : n \in 0..MaxTasks}

(***************************************************************************)
(* firestore_db.py: the status and log-entry enumerations.                 *)
(***************************************************************************)
WorkflowStatus == {"pending", "in_progress", "completed", "failed", "cancelled"}
LogEntryType == {"tool_call", "error", "success", "warning", "info"}
Terminal == {"completed", "failed", "cancelled"}

(***************************************************************************)
(* Structural validation (EnhancedWorkflowExecutor._validate_email_tasks). *)
(***************************************************************************)
placeholder_patterns ==
  [recipient |-> {"recipient@example.com", "email@example.com", "user@example.com", "example@email.com"},
   subject |-> {"Subject", "Email subject", "Email Subject", "subject", "SUBJECT"},
   query |-> {"query", "search query", "Search Query", "QUERY", "search"}]

\* str(task.get(field, '')).strip(), on the strings a task field takes here
StrStrip(v) ==
  IF v \in {NoVal, "", " "} THEN ""
  ELSE IF v = " Subject " THEN "Subject"
  ELSE IF v = " a@b.com " THEN "a@b.com"
  ELSE v

\* Variant: the value is compared as it is, without strip().
FieldMissing_NoStrip(task, field) ==
  task[field] \in {NoVal, ""} \cup placeholder_patterns[field]

\* not value or value in placeholder_patterns[field]
FieldMissing(task, field) ==
  LET s == StrStrip(task[field])
  IN  s = "" \/ s \in placeholder_patterns[field]

\* telegram_bot.validate_workflow: the same rules; its lists also hold ' '
chat_placeholder_patterns ==
  [f \in DOMAIN placeholder_patterns |-> placeholder_patterns[f] \cup {" "}]

ChatFieldMissing(task, field) ==
  LET s == StrStrip(task[field])
  IN  s = "" \/ s \in chat_placeholder_patterns[field]

\* Variant: a task to send is asked for its recipient alone.
ChatTaskMissing_RecipientOnly(task) ==
  IF task.action # "email" THEN <<>>
  ELSE IF (IF task.mode = NoVal THEN "write" ELSE task.mode) = "read"
       THEN (IF ChatFieldMissing(task, "query") THEN <<"query">> ELSE <<>>)
       ELSE (IF ChatFieldMissing(task, "recipient") THEN <<"recipient">> ELSE <<>>)

ChatTaskMissing(task) ==
  IF task.action # "email" THEN <<>>
  ELSE IF (IF task.mode = NoVal THEN "write" ELSE task.mode) = "read"
       THEN (IF ChatFieldMissing(task, "query") THEN <<"query">> ELSE <<>>)
       ELSE (IF ChatFieldMissing(task, "recipient") THEN <<"recipient">> ELSE <<>>)
            \o (IF ChatFieldMissing(task, "subject") THEN <<"subject">> ELSE <<>>)

\* task.get('mode', 'write')
ModeOrWrite(task) == IF task.mode = NoVal THEN "write" ELSE task.mode

TaskMissing(task) ==
  IF task.action # "email" THEN <<>>
  ELSE IF ModeOrWrite(task) = "read"
       THEN (IF FieldMissing(task, "query") THEN <<"query">> ELSE <<>>)
       ELSE (IF FieldMissing(task, "recipient") THEN <<"recipient">> ELSE <<>>)
            \o (IF FieldMissing(task, "subject") THEN <<"subject">> ELSE <<>>)

RECURSIVE MissingFields(_)
MissingFields(tasks) ==
  IF tasks = <<>> THEN <<>>
  ELSE TaskMissing(Head(tasks)) \o MissingFields(Tail(tasks))

RECURSIVE UniqueInOrder(_, _)
UniqueInOrder(fields, seen) ==
  IF fields = <<>> THEN <<>>
  ELSE IF Head(fields) \in seen THEN UniqueInOrder(Tail(fields), seen)
       ELSE <<Head(fields)>> \o UniqueInOrder(Tail(fields), seen \cup {Head(fields)})

\* Variant: only the first task of the list is examined.
_validate_email_tasks_FirstOnly(tasks) ==
  IF tasks = <<>> THEN <<>> ELSE UniqueInOrder(TaskMissing(Head(tasks)), {})

\* The result is the list of names put in the message; <<>> stands for None.
_validate_email_tasks(tasks) == UniqueInOrder(MissingFields(tasks), {})

RECURSIVE ChatMissingFields(_)
ChatMissingFields(tasks) ==
  IF tasks = <<>> THEN <<>>
  ELSE ChatTaskMissing(Head(tasks)) \o ChatMissingFields(Tail(tasks))

\* validate_workflow: (is_workflow, names put in the message)
validate_workflow(tasks) ==
  IF \E j \in DOMAIN tasks : tasks[j].action = "conversation"
  THEN [is_workflow |-> FALSE, missing |-> <<"not_workflow">>]
  ELSE [is_workflow |-> TRUE, missing |-> UniqueInOrder(ChatMissingFields(tasks), {})]

(***************************************************************************)
(* Capability registry (tool_registry.py) and the scopes each capability   *)
(* declares (gmail_tools.py).                                              *)
(***************************************************************************)
NoTool == "<none>"

TOOL_REGISTRY(action, mode) ==
  IF action = "email" /\ mode = "send" THEN "send_email"
  ELSE IF action = "email" /\ mode = "read" THEN "read_email"
  ELSE NoTool

create_tool_for_action(action, mode) == TOOL_REGISTRY(action, mode)

\* `action in TOOL_REGISTRY` compares a str with the registry's tuple keys.
ActionIsRegistryKey(action) == FALSE

create_tools_for_workflow(tasks) ==
  {create_tool_for_action(tasks[j].action, tasks[j].mode) :
     j \in {k \in DOMAIN tasks : tasks[k].action # NoVal /\ ActionIsRegistryKey(tasks[k].action)}}

\* Variant: the sending capability asks for gmail.modify as well.
required_scopes_SendNeedsModify(tool) ==
  IF tool = "send_email" THEN {"gmail.send", "gmail.modify"}
  ELSE IF tool = "read_email" THEN {"gmail.readonly"}
  ELSE {}

required_scopes(tool) ==
  IF tool = "send_email" THEN {"gmail.send"}
  ELSE IF tool = "read_email" THEN {"gmail.readonly"}
  ELSE {}

(***************************************************************************)
(* Authorization gate of the chat handler (telegram_bot.py).               *)
(***************************************************************************)
GOOGLE_ACTION_SCOPES(key) ==
  IF key = "email_send" THEN {"gmail.send", "gmail.compose"}
  ELSE IF key = "email_read" THEN {"gmail.readonly"}
  ELSE IF key = "email" THEN {"gmail.send", "gmail.readonly", "gmail.compose", "gmail.modify"}
  ELSE {}

\* Variant: a mode that is neither read nor send takes the scopes of send.
TaskScopes_FallbackSend(task) ==
  IF task.action # "email" THEN {}
  ELSE IF task.mode = "read" THEN GOOGLE_ACTION_SCOPES("email_read")
       ELSE GOOGLE_ACTION_SCOPES("email_send")

\* task.get("mode", "send")
TaskScopes(task) ==
  IF task.action # "email" THEN {}
  ELSE LET mode == IF task.mode = NoVal THEN "send" ELSE task.mode
       IN  IF mode = "read" THEN GOOGLE_ACTION_SCOPES("email_read")
           ELSE IF mode = "send" THEN GOOGLE_ACTION_SCOPES("email_send")
           ELSE GOOGLE_ACTION_SCOPES("email")

extract_required_scopes_from_workflow(tasks) ==
  UNION {TaskScopes(tasks[j]) : j \in DOMAIN tasks}

\* The owner's token document: whether it exists, and its 'scope' field.
NoRecord == [exists |-> FALSE, has_scope |-> FALSE, scope |-> {}]
Tokens(scopes) == [exists |-> TRUE, has_scope |-> TRUE, scope |-> scopes]

\* A token document without a 'scope' field
ScopelessRecord == [exists |-> TRUE, has_scope |-> FALSE, scope |-> {}]

\* Variant: every required scope is taken as granted.
get_missing_scopes_Nothing(tokens, required) == {}

\* Variant: a document without a scope field counts as granting everything.
get_missing_scopes_NoFieldGrantsAll(tokens, required) ==
  IF ~tokens.exists THEN required
  ELSE IF ~tokens.has_scope THEN {}
  ELSE required \ tokens.scope

get_missing_scopes(tokens, required) ==
  IF ~tokens.exists \/ ~tokens.has_scope THEN required ELSE required \ tokens.scope


(***************************************************************************)
(* State.                                                                  *)
(*   status, log, tasksOf  the workflow documents of the store; eng[r]     *)
(*                         .startedOn is the status load_workflow read     *)
(*   granted               the owner's token document (its scope set)      *)
(*   chat                  what the chat handler did with each workflow    *)
(*   pc, eng               position and fields of each engine instance     *)
(*   invoked               the capability invocations, in the order made   *)
(*   liveMsgs              thinking messages now shown in the owner's chat *)
(*   bgThinking            background_messenger.thinking_messages[owner]   *)
(*   faultMode, storeUp    the environment: the one kind of disturbance a  *)
(*                         behaviour may see, and whether the document     *)
(*                         store answers                                   *)
(*   routeCalls            calls of the status route so far                *)
(*   probe                 the last application of a function of the       *)
(*                         handlers to an input of its own, and its value  *)
(***************************************************************************)
VARIABLES status, log, tasksOf, granted, chat, pc, eng, invoked,
          liveMsgs, bgThinking, faultMode, storeUp, routeCalls, probe

vars == <<status, log, tasksOf, granted, chat, pc, eng, invoked,
          liveMsgs, bgThinking, faultMode, storeUp, routeCalls, probe>>

\* The engine instances a behaviour has room for, and the stored workflows
RunIds == DOMAIN pc
WfIds == DOMAIN status

FaultModes == {"none", "store", "transport", "route"}

InitialGrants ==
  {NoRecord, Tokens(GOOGLE_ACTION_SCOPES("email_send")), Tokens(GOOGLE_ACTION_SCOPES("email"))}

NoRet == [kind |-> "none", success |-> FALSE, results |-> <<>>]

\* What get_workflow_by_id finds under a workflow id: a workflow saved for an
\* owner, one saved with an empty user_id, or no document.
OwnedDoc == [found |-> TRUE, user_id |-> "u1"]
OwnerlessDoc == [found |-> TRUE, user_id |-> ""]
AbsentDoc == [found |-> FALSE, user_id |-> NoVal]

\* No function of the handlers has been applied on its own.
NoProbe == [op |-> "none"]

\* EnhancedWorkflowExecutor.__init__
NewEngine ==
  [wf |-> 0, backend |-> "none", caller |-> "none", tasks |-> <<>>, tools |-> {},
   thinking_message_id |-> 0, i |-> 0, results |-> <<>>, finals |-> <<>>,
   wrote |-> <<>>, startedOn |-> "none", exc |-> FALSE, ret |-> NoRet,
   doc |-> AbsentDoc, loadUp |-> TRUE, loaded |-> FALSE,
   announces |-> 0, retires |-> 0, made |-> <<>>]

\* save_workflow followed by the creation entry of parse_and_save
CreatedEntry ==
  [type |-> "info", msg |-> "created", tool_name |-> NoVal, error_code |-> NoVal,
   task_index |-> 0, by |-> 0]

Init ==
  /\ status = [w \in 1..MaxWorkflows |-> "pending"]
  /\ log = [w \in 1..MaxWorkflows |-> <<CreatedEntry>>]
  /\ tasksOf \in [1..MaxWorkflows -> TaskLists]
  /\ granted \in InitialGrants
  /\ chat = [w \in 1..MaxWorkflows |-> "new"]
  /\ pc = [r \in 1..MaxRuns |-> "new"]
  /\ eng = [r \in 1..MaxRuns |-> NewEngine]
  /\ invoked = <<>>
  /\ liveMsgs = {}
  /\ bgThinking = 0
  /\ faultMode \in FaultModes
  /\ storeUp = TRUE
  /\ routeCalls = 0
  /\ probe = NoProbe

(***************************************************************************)
(* Store adapter (firestore_db.py).  Each operator gives the new value of  *)
(* the document field; a failed write is caught and leaves it unchanged.   *)
(***************************************************************************)
\* Variant: a completed or failed status is not overwritten.
update_workflow_status_KeepsTerminal(st, w, s) ==
  IF storeUp /\ st[w] \notin {"completed", "failed"} THEN [st EXCEPT ![w] = s] ELSE st

update_workflow_status(st, w, s) == IF storeUp THEN [st EXCEPT ![w] = s] ELSE st

\* Variant: the write replaces the array by the new entry.
add_execution_log_entry_Overwrites(lg, w, entry) ==
  IF storeUp THEN [lg EXCEPT ![w] = <<entry>>] ELSE lg

\* ArrayUnion([log_entry]) on execution_log: the entry carries the time of
\* the call, so it equals none of the stored ones and goes to the end.
add_execution_log_entry(lg, w, entry) ==
  IF storeUp THEN [lg EXCEPT ![w] = Append(@, entry)] ELSE lg

Entry(r, type, msg, tool, code, idx) ==
  [type |-> type, msg |-> msg, tool_name |-> tool, error_code |-> code,
   task_index |-> idx, by |-> r]

(***************************************************************************)
(* Engine helpers.                                                         *)
(***************************************************************************)
\* Whether a transport call (send, edit, delete of a chat message) succeeds.
TransportOutcomes == IF faultMode = "transport" THEN BOOLEAN ELSE {TRUE}

Successes(results) == Cardinality({j \in DOMAIN results : results[j].success})

\* EnhancedWorkflowExecutor.start_execution
start_log(lg, r) ==
  add_execution_log_entry(lg, eng[r].wf, Entry(r, "info", "started", NoVal, NoVal, 0))

\* EnhancedWorkflowExecutor.complete_execution: the log after it, and its value
complete_log(lg, r) ==
  add_execution_log_entry(lg, eng[r].wf, Entry(r, "success", "completed", NoVal, NoVal, 0))

\* Variant: an empty result set is reported as a failure.
complete_ret_FailsOnEmpty(results) ==
  [kind |-> "pair", success |-> storeUp /\ results # <<>>, results |-> results]

complete_ret(results) == [kind |-> "pair", success |-> storeUp, results |-> results]

\* EnhancedWorkflowExecutor.fail_execution: the log after it, and its value
fail_log(lg, r, code) ==
  add_execution_log_entry(lg, eng[r].wf, Entry(r, "error", "failed", NoVal, code, 0))

fail_ret == [kind |-> "bool", success |-> storeUp, results |-> <<>>]

FalseRet == [kind |-> "bool", success |-> FALSE, results |-> <<>>]

\* One more status write of run r, with whether the store took it.
Wrote(e, s) == Append(e.wrote, [st |-> s, ok |-> storeUp])

\* _send_thinking: the message id the engine keeps (0 is None)
SentThinkingId(r, ok) == IF ok THEN r ELSE 0

\* _delete_thinking: which message the backend deletes (0: the call is skipped)
DeleteTarget(r) ==
  IF eng[r].backend = "background" THEN bgThinking ELSE eng[r].thinking_message_id

DeleteThinking(r, ok) ==
  LET m == DeleteTarget(r)
  IN  /\ liveMsgs' = IF ok /\ m # 0 THEN liveMsgs \ {m} ELSE liveMsgs
      /\ bgThinking' = IF eng[r].backend = "background" /\ ok THEN 0 ELSE bgThinking

\* _send_final_result, and the reply_text of the validation branch
Finals(e, ok, via, text) ==
  IF ok THEN Append(e.finals, [via |-> via, text |-> text]) ELSE e.finals


(***************************************************************************)
(* EnhancedWorkflowExecutor._execute_task and what it calls.               *)
(***************************************************************************)
ToolKey(action, mode) == <<action, mode>>

\* _get_tool_for_action: a cached handle, or a new one from the registry
_get_tool_for_action(tools, action, mode) == create_tool_for_action(action, mode)

\* Variant: a handle that was made is not kept.
ToolsAfter_NoCache(tools, action, mode) == tools

ToolsAfter(tools, action, mode) ==
  IF _get_tool_for_action(tools, action, mode) # NoTool
  THEN tools \cup {ToolKey(action, mode)} ELSE tools

\* The handles the registry factory made for this engine, in the order made:
\* _get_tool_for_action calls create_tool_for_action only for a key that is
\* not in self.tools, and an instance comes back only for a registered pair.
MadeAfter(made, tools, action, mode) ==
  IF ToolKey(action, mode) \notin tools /\ create_tool_for_action(action, mode) # NoTool
  THEN Append(made, ToolKey(action, mode)) ELSE made

\* self.tools[tool_key]: the handle kept for a pair is the one made last
HandleOf(made, key) ==
  CHOOSE j \in DOMAIN made : made[j] = key /\ \A k \in DOMAIN made : made[k] = key => k <= j

\* A key with the value None
Null == "<null>"

\* task.get(f): a task names a field when the key is there (NoVal: not there)
Field(task, f) == IF f \in DOMAIN task THEN task[f] ELSE NoVal

\* `'query' not in args or not args['query']`
QueryLacking(task) == Field(task, "query") \in {NoVal, Null, ""}

OptionalSendFields == {"body", "cc", "bcc"}

\* Variant: the optional fields of a send task are passed as they are.
_prepare_tool_arguments_NoDefaults(task) ==
  LET email == Field(task, "action") = "email"
      mode == Field(task, "mode")
  IN  [raised |-> email /\ mode = "read" /\ QueryLacking(task),
       args |-> [f \in DOMAIN task \ {"action"} |-> task[f]]]

\* _prepare_tool_arguments: the task without its action key; a send task
\* gets "" for a body, cc or bcc that is not there or is None; a read task
\* without a query raises ValueError.
_prepare_tool_arguments(task) ==
  LET email == Field(task, "action") = "email"
      mode == Field(task, "mode")
      filled == IF email /\ mode = "send"
                THEN {f \in OptionalSendFields : Field(task, f) \in {NoVal, Null}}
                ELSE {}
  IN  [raised |-> email /\ mode = "read" /\ QueryLacking(task),
       args |-> [f \in (DOMAIN task \ {"action"}) \cup filled |->
                   IF f \in filled THEN "" ELSE task[f]]]

\* _prepare_tool_arguments raises for an email read task without a query
ArgsRejected(task) == _prepare_tool_arguments(task).raised

\* Where _execute_task leaves: an early return, an exception before the
\* invocation, or the invocation itself.
\* Variant: the mode of a task is not looked at before the lookup.
TaskPath_NoModeCheck(task, tools) ==
  IF task.action = NoVal THEN "no_action"
  ELSE IF _get_tool_for_action(tools, task.action, task.mode) = NoTool THEN "no_tool"
  ELSE IF ArgsRejected(task) THEN "bad_args"
  ELSE "invoke"

\* _execute_task: the return or the call a task reaches
TaskPath(task, tools) ==
  IF task.action = NoVal THEN "no_action"
  ELSE IF task.mode = NoVal THEN "no_mode"
  ELSE IF _get_tool_for_action(tools, task.action, task.mode) = NoTool THEN "no_tool"
  ELSE IF ArgsRejected(task) THEN "bad_args"
  ELSE "invoke"

\* save_google_tokens: the scopes are merged with the stored ones
save_google_tokens(tokens, scopes) == Tokens(tokens.scope \cup scopes)

\* Variant: the refresh stores the new access token alone.
refresh_saves_TokenOnly(tokens) == ScopelessRecord

\* get_credentials on expired credentials: the document read, with a new
\* access_token, is saved again (its scope list goes through the merge).
refresh_saves(tokens) == save_google_tokens(tokens, tokens.scope)

\* BaseGoogleTool.get_credentials on a token document: no document gives
\* None, a document without the field an empty granted set.
ScopeCheck(tokens, tool) == tokens.exists /\ required_scopes(tool) \subseteq tokens.scope

\* BaseGoogleTool.get_credentials: the capability's own scope check
Authorized(tool) == ScopeCheck(granted, tool)

\* tool.run: it returns the capability's string ("ok"), returns the string of
\* a failure the capability caught itself ("returned_failure": no credentials,
\* handle_api_error), or raises ("threw": the arguments fail the tool's schema).
InvokeOutcomes(tool) ==
  IF Authorized(tool) THEN {"ok", "returned_failure", "threw"}
  ELSE {"returned_failure", "threw"}

\* The success flag of the per-task result built from an invocation outcome.
InvocationSucceeded(out) == out # "threw"

TaskError(path, out) ==
  IF path = "no_action" THEN "No action specified in task"
  ELSE IF path = "no_mode" THEN "No mode specified in task"
  ELSE IF path = "no_tool" THEN "Task execution failed: 'NoneType' object has no attribute 'name'"
  ELSE IF path = "bad_args" THEN "Task execution failed: Missing required field 'query' for email read action"
  ELSE IF ~InvocationSucceeded(out) THEN "Task execution failed: <exception>"
  ELSE NoVal

_execute_task(task, idx, path, out) ==
  [success |-> path = "invoke" /\ InvocationSucceeded(out),
   error |-> TaskError(path, out),
   result |-> IF path = "invoke" /\ InvocationSucceeded(out) THEN out ELSE NoVal,
   task_index |-> idx]

\* task.get('action', 'unknown'), and the tool_name tag of the log entry
ActionOrUnknown(task) == IF task.action = NoVal THEN "unknown" ELSE task.action

\* Variant: only the failed tasks are logged.
tool_log_FailuresOnly(lg, r, task, result) ==
  IF result.success THEN lg
  ELSE add_execution_log_entry(lg, eng[r].wf,
         Entry(r, "error", "tool_result", ActionOrUnknown(task), NoVal, result.task_index))

\* log_tool_execution
tool_log(lg, r, task, result) ==
  add_execution_log_entry(lg, eng[r].wf,
    Entry(r, IF result.success THEN "success" ELSE "error", "tool_result",
          ActionOrUnknown(task), NoVal, result.task_index))

\* Variant: the list is walked from its end.
Position_Reversed(n, i) == n + 1 - i

\* for i, task in enumerate(tasks): the list position handled by iteration i
Position(n, i) == i

\* Variant: the loop ends at the first failed task.
LoopContinues_StopOnFailure(e) == e.i < Len(e.tasks) /\ e.results[e.i].success

\* The loop goes on to the next task whatever the result of this one.
LoopContinues(e) == e.i < Len(e.tasks)

\* Variant: a partial success takes the branch of the total failure.
Outcome_PartialFails(k, n) == IF k = n THEN "full" ELSE "total_failure"

\* The branch of the aggregate outcome for k successes out of n tasks.
Outcome(k, n) ==
  IF k = n THEN "full" ELSE IF k > 0 THEN "partial" ELSE "total_failure"


(***************************************************************************)
(* EnhancedWorkflowExecutor.execute_workflow, one action per await.        *)
(***************************************************************************)
Background(r) == eng[r].backend = "background"

\* Every operation of the background messenger first reads the owner's chat
\* id from the store (get_user_chat_id), outside its try: when the store does
\* not answer, the operation raises.  The interactive backend reads nothing.
Raises(r) == Background(r) /\ ~storeUp

HandlerPcs == {"exc_update", "exc_delete", "exc_final"}

\* Positions of an engine instance in which no execute_workflow is in flight:
\* not yet made, returned, load_workflow returned False, or the coroutine was
\* made and never awaited.
IdlePcs == {"new", "done", "not_loaded", "unawaited"}

RaisedRet == [kind |-> "raised", success |-> FALSE, results |-> <<>>]

\* await _send_thinking(...); the callers run execute only after load
\* returned True, so workflow_data is set.
Announce(r) ==
  /\ pc[r] = "announce"
  /\ ~Raises(r)
  /\ \E ok \in TransportOutcomes :
       /\ liveMsgs' = IF ok THEN liveMsgs \cup {r} ELSE liveMsgs
       /\ bgThinking' = IF Background(r) /\ ok THEN r ELSE bgThinking
       /\ eng' = [eng EXCEPT ![r].thinking_message_id = SentThinkingId(r, ok),
                             ![r].announces = @ + 1]
  /\ pc' = [pc EXCEPT ![r] = "upd_validating"]
  /\ UNCHANGED <<status, log, tasksOf, granted, chat, invoked, faultMode, storeUp, routeCalls, probe>>

\* await _update_thinking("Validating"); validation
UpdValidating(r) ==
  /\ pc[r] = "upd_validating"
  /\ ~Raises(r)
  /\ pc' = [pc EXCEPT ![r] =
              IF _validate_email_tasks(eng[r].tasks) # <<>> THEN "val_delete"
              ELSE "upd_permissions"]
  /\ UNCHANGED <<status, log, tasksOf, granted, chat, eng, invoked, liveMsgs, bgThinking,
                 faultMode, storeUp, routeCalls, probe>>

\* await _delete_thinking; without a live exchange: fail_execution, return False
ValDelete(r) ==
  /\ pc[r] = "val_delete"
  /\ ~Raises(r)
  /\ \E ok \in TransportOutcomes : DeleteThinking(r, ok)
  /\ IF Background(r)
     THEN /\ status' = update_workflow_status(status, eng[r].wf, "failed")
          /\ log' = fail_log(log, r, "VALIDATION_ERROR")
          /\ eng' = [eng EXCEPT ![r].wrote = Wrote(eng[r], "failed"), ![r].ret = fail_ret,
                                ![r].retires = @ + 1]
          /\ pc' = [pc EXCEPT ![r] = "done"]
     ELSE /\ pc' = [pc EXCEPT ![r] = "val_reply"]
          /\ eng' = [eng EXCEPT ![r].retires = @ + 1]
          /\ UNCHANGED <<status, log>>
  /\ UNCHANGED <<tasksOf, granted, chat, invoked, faultMode, storeUp, routeCalls, probe>>

\* await telegram_update.message.reply_text(error); fail_execution; return False.
\* The reply is inside no try of its own: when it raises, the handler of
\* execute_workflow runs.  No caller brings an interactive run here (the
\* chat handler starts one only for a list that passes validate_workflow, which
\* applies the same rules), so the action is no part of Next.
ValReply(r) ==
  /\ pc[r] = "val_reply"
  /\ \E ok \in TransportOutcomes :
       IF ok
       THEN /\ status' = update_workflow_status(status, eng[r].wf, "failed")
            /\ log' = fail_log(log, r, "VALIDATION_ERROR")
            /\ eng' = [eng EXCEPT ![r].finals = Finals(eng[r], TRUE, "reply", "validation_error"),
                                  ![r].wrote = Wrote(eng[r], "failed"),
                                  ![r].ret = fail_ret]
            /\ pc' = [pc EXCEPT ![r] = "done"]
       ELSE /\ eng' = [eng EXCEPT ![r].exc = TRUE]
            /\ pc' = [pc EXCEPT ![r] = "exc_update"]
            /\ UNCHANGED <<status, log>>
  /\ UNCHANGED <<tasksOf, granted, chat, invoked, liveMsgs, bgThinking, faultMode, storeUp,
                 routeCalls, probe>>

\* Variant: a start that failed is tried again.
AfterStart_Retries(started) == IF started THEN "upd_starting" ELSE "upd_permissions"

\* if not self.start_execution(): ... return False
AfterStart(started) == IF started THEN "upd_starting" ELSE "upd_startfail"

\* await _update_thinking("Checking permissions"); start_execution
UpdPermissions(r) ==
  /\ pc[r] = "upd_permissions"
  /\ ~Raises(r)
  /\ status' = update_workflow_status(status, eng[r].wf, "in_progress")
  /\ log' = start_log(log, r)
  /\ eng' = [eng EXCEPT ![r].wrote = Wrote(eng[r], "in_progress")]
  /\ pc' = [pc EXCEPT ![r] = AfterStart(storeUp)]
  /\ UNCHANGED <<tasksOf, granted, chat, invoked, liveMsgs, bgThinking, faultMode, storeUp,
                 routeCalls, probe>>

\* await _update_thinking("Failed to start execution"); return False
UpdStartFail(r) ==
  /\ pc[r] = "upd_startfail"
  /\ ~Raises(r)
  /\ eng' = [eng EXCEPT ![r].ret = FalseRet]
  /\ pc' = [pc EXCEPT ![r] = "done"]
  /\ UNCHANGED <<status, log, tasksOf, granted, chat, invoked, liveMsgs, bgThinking,
                 faultMode, storeUp, routeCalls, probe>>

\* The store stops answering while a background run awaits the edit of
\* "Checking permissions" (its chat id was read before the await):
\* start_execution's write fails and returns False, and the engine goes on
\* to _update_thinking("Failed to start execution").
UpdPermissionsOutage(r) ==
  /\ pc[r] = "upd_permissions"
  /\ Background(r)
  /\ faultMode = "store"
  /\ storeUp
  /\ storeUp' = FALSE
  /\ eng' = [eng EXCEPT ![r].wrote = Append(@, [st |-> "in_progress", ok |-> FALSE])]
  /\ pc' = [pc EXCEPT ![r] = AfterStart(FALSE)]
  /\ UNCHANGED <<status, log, tasksOf, granted, chat, invoked, liveMsgs, bgThinking,
                 faultMode, routeCalls, probe>>

\* await _update_thinking("Starting workflow execution"); the empty-list test
UpdStarting(r) ==
  /\ pc[r] = "upd_starting"
  /\ ~Raises(r)
  /\ IF eng[r].tasks = <<>>
     THEN /\ log' = add_execution_log_entry(log, eng[r].wf,
                      Entry(r, "warning", "no_tasks", NoVal, NoVal, 0))
          /\ pc' = [pc EXCEPT ![r] = "upd_notasks"]
          /\ UNCHANGED eng
     ELSE /\ eng' = [eng EXCEPT ![r].i = 1]
          /\ pc' = [pc EXCEPT ![r] = "upd_executing"]
          /\ UNCHANGED log
  /\ UNCHANGED <<status, tasksOf, granted, chat, invoked, liveMsgs, bgThinking, faultMode,
                 storeUp, routeCalls, probe>>

\* await _update_thinking("No tasks to execute")
UpdNoTasks(r) ==
  /\ pc[r] = "upd_notasks"
  /\ ~Raises(r)
  /\ pc' = [pc EXCEPT ![r] = "empty_delete"]
  /\ UNCHANGED <<status, log, tasksOf, granted, chat, eng, invoked, liveMsgs, bgThinking,
                 faultMode, storeUp, routeCalls, probe>>

\* await _delete_thinking; return complete_execution({"message": ...})
EmptyDelete(r) ==
  /\ pc[r] = "empty_delete"
  /\ ~Raises(r)
  /\ \E ok \in TransportOutcomes : DeleteThinking(r, ok)
  /\ status' = update_workflow_status(status, eng[r].wf, "completed")
  /\ log' = complete_log(log, r)
  /\ eng' = [eng EXCEPT ![r].wrote = Wrote(eng[r], "completed"),
                        ![r].ret = complete_ret(<<>>),
                        ![r].retires = @ + 1]
  /\ pc' = [pc EXCEPT ![r] = "done"]
  /\ UNCHANGED <<tasksOf, granted, chat, invoked, faultMode, storeUp, routeCalls, probe>>

\* await _update_thinking("Executing <action>"); _execute_task; append the result
UpdExecuting(r) ==
  /\ pc[r] = "upd_executing"
  /\ ~Raises(r)
  /\ LET e == eng[r]
         at == Position(Len(e.tasks), e.i)
         task == e.tasks[at]
         path == TaskPath(task, e.tools)
         tool == _get_tool_for_action(e.tools, task.action, task.mode)
     IN  \E out \in (IF path = "invoke" THEN InvokeOutcomes(tool) ELSE {"none"}),
            expired \in (IF path = "invoke" /\ Authorized(tool) /\ storeUp
                         THEN BOOLEAN ELSE {FALSE}) :
           /\ granted' = IF expired THEN refresh_saves(granted) ELSE granted
           /\ eng' = [eng EXCEPT
                        ![r].tools = IF path \in {"no_action", "no_mode"} THEN e.tools
                                     ELSE ToolsAfter(e.tools, task.action, task.mode),
                        ![r].made = IF path \in {"no_action", "no_mode"} THEN e.made
                                    ELSE MadeAfter(e.made, e.tools, task.action, task.mode),
                        ![r].results = Append(e.results, _execute_task(task, e.i, path, out))]
           /\ log' = IF path = "invoke"
                     THEN add_execution_log_entry(log, e.wf,
                            Entry(r, "info", "executing_task", NoVal, NoVal, e.i))
                     ELSE log
           /\ invoked' = IF path = "invoke"
                         THEN Append(invoked,
                                [run |-> r, wf |-> e.wf, idx |-> at, tool |-> tool,
                                 handle |-> HandleOf(MadeAfter(e.made, e.tools, task.action,
                                                               task.mode),
                                                     ToolKey(task.action, task.mode)),
                                 refreshed |-> expired, out |-> out])
                         ELSE invoked
  /\ pc' = [pc EXCEPT ![r] = "upd_taskresult"]
  /\ UNCHANGED <<status, tasksOf, chat, liveMsgs, bgThinking, faultMode, storeUp,
                 routeCalls, probe>>

\* await _update_thinking("Failed"/"Completed"); log_tool_execution; the next
\* task, or after the last one the aggregate up to its first await
UpdTaskResult(r) ==
  /\ pc[r] = "upd_taskresult"
  /\ ~Raises(r)
  /\ LET e == eng[r]
         logged == tool_log(log, r, e.tasks[Position(Len(e.tasks), e.i)], e.results[e.i])
     IN  IF LoopContinues(e)
         THEN /\ eng' = [eng EXCEPT ![r].i = e.i + 1]
              /\ log' = logged
              /\ pc' = [pc EXCEPT ![r] = "upd_executing"]
         ELSE /\ log' = IF Outcome(Successes(e.results), Len(e.tasks)) = "partial"
                        THEN add_execution_log_entry(logged, e.wf,
                               Entry(r, "warning", "failed_tasks", NoVal, NoVal, 0))
                        ELSE logged
              /\ pc' = [pc EXCEPT ![r] = "upd_outcome"]
              /\ UNCHANGED eng
  /\ UNCHANGED <<status, tasksOf, granted, chat, invoked, liveMsgs, bgThinking, faultMode,
                 storeUp, routeCalls, probe>>

\* await _update_thinking(<outcome>)
UpdOutcome(r) ==
  /\ pc[r] = "upd_outcome"
  /\ ~Raises(r)
  /\ pc' = [pc EXCEPT ![r] = "out_delete"]
  /\ UNCHANGED <<status, log, tasksOf, granted, chat, eng, invoked, liveMsgs, bgThinking,
                 faultMode, storeUp, routeCalls, probe>>

\* await _delete_thinking
OutDelete(r) ==
  /\ pc[r] = "out_delete"
  /\ ~Raises(r)
  /\ \E ok \in TransportOutcomes : DeleteThinking(r, ok)
  /\ eng' = [eng EXCEPT ![r].retires = @ + 1]
  /\ pc' = [pc EXCEPT ![r] = "final1"]
  /\ UNCHANGED <<status, log, tasksOf, granted, chat, invoked, faultMode, storeUp,
                 routeCalls, probe>>

\* await _send_final_result(<outcome message>); on full success a second
\* message follows, otherwise complete_execution or fail_execution returns
Final1(r) ==
  /\ pc[r] = "final1"
  /\ ~Raises(r)
  /\ LET e == eng[r]
         oc == Outcome(Successes(e.results), Len(e.tasks))
     IN  \E ok \in TransportOutcomes :
           IF oc = "full"
           THEN /\ eng' = [eng EXCEPT ![r].finals = Finals(e, ok, "finalize", "success")]
                /\ pc' = [pc EXCEPT ![r] = "final2"]
                /\ UNCHANGED <<status, log>>
           ELSE IF oc = "partial"
           THEN /\ status' = update_workflow_status(status, e.wf, "completed")
                /\ log' = complete_log(log, r)
                /\ eng' = [eng EXCEPT ![r].finals = Finals(e, ok, "finalize", "failures"),
                                      ![r].wrote = Wrote(e, "completed"),
                                      ![r].ret = complete_ret(e.results)]
                /\ pc' = [pc EXCEPT ![r] = "done"]
           ELSE /\ status' = update_workflow_status(status, e.wf, "failed")
                /\ log' = fail_log(log, r, "EXECUTION_FAILURE")
                /\ eng' = [eng EXCEPT ![r].finals = Finals(e, ok, "finalize", "all_failed"),
                                      ![r].wrote = Wrote(e, "failed"),
                                      ![r].ret = fail_ret]
                /\ pc' = [pc EXCEPT ![r] = "done"]
  /\ UNCHANGED <<tasksOf, granted, chat, invoked, liveMsgs, bgThinking, faultMode, storeUp,
                 routeCalls, probe>>

\* Variant: the payload of the last task is sent.
FirstResult_Last(results) == results[Len(results)].result

\* completion_data['execution_results'][0].get('result', 'No result')
FirstResult(results) == results[1].result

\* await _send_final_result(<result of the first task>); complete_execution
Final2(r) ==
  /\ pc[r] = "final2"
  /\ ~Raises(r)
  /\ \E ok \in TransportOutcomes :
       eng' = [eng EXCEPT ![r].finals = Finals(eng[r], ok, "finalize", FirstResult(eng[r].results)),
                          ![r].wrote = Wrote(eng[r], "completed"),
                          ![r].ret = complete_ret(eng[r].results)]
  /\ status' = update_workflow_status(status, eng[r].wf, "completed")
  /\ log' = complete_log(log, r)
  /\ pc' = [pc EXCEPT ![r] = "done"]
  /\ UNCHANGED <<tasksOf, granted, chat, invoked, liveMsgs, bgThinking, faultMode, storeUp,
                 routeCalls, probe>>

\* An await of the try block raises: control passes to the except clause.
NotifierRaises(r) ==
  /\ pc[r] \notin IdlePcs \cup HandlerPcs
  /\ Raises(r)
  /\ eng' = [eng EXCEPT ![r].exc = TRUE]
  /\ pc' = [pc EXCEPT ![r] = "exc_update"]
  /\ UNCHANGED <<status, log, tasksOf, granted, chat, invoked, liveMsgs, bgThinking,
                 faultMode, storeUp, routeCalls, probe>>

\* An await of the except clause raises: the exception leaves execute_workflow.
HandlerRaises(r) ==
  /\ pc[r] \in HandlerPcs
  /\ Raises(r)
  /\ eng' = [eng EXCEPT ![r].ret = RaisedRet]
  /\ pc' = [pc EXCEPT ![r] = "done"]
  /\ UNCHANGED <<status, log, tasksOf, granted, chat, invoked, liveMsgs, bgThinking,
                 faultMode, storeUp, routeCalls, probe>>

\* except Exception: await _update_thinking("Execution failed")
ExcUpdate(r) ==
  /\ pc[r] = "exc_update"
  /\ ~Raises(r)
  /\ pc' = [pc EXCEPT ![r] = "exc_delete"]
  /\ UNCHANGED <<status, log, tasksOf, granted, chat, eng, invoked, liveMsgs, bgThinking,
                 faultMode, storeUp, routeCalls, probe>>

\* await _delete_thinking
ExcDelete(r) ==
  /\ pc[r] = "exc_delete"
  /\ ~Raises(r)
  /\ \E ok \in TransportOutcomes : DeleteThinking(r, ok)
  /\ eng' = [eng EXCEPT ![r].retires = @ + 1]
  /\ pc' = [pc EXCEPT ![r] = "exc_final"]
  /\ UNCHANGED <<status, log, tasksOf, granted, chat, invoked, faultMode, storeUp,
                 routeCalls, probe>>

\* await _send_final_result("Workflow execution failed"); fail_execution
ExcFinal(r) ==
  /\ pc[r] = "exc_final"
  /\ ~Raises(r)
  /\ \E ok \in TransportOutcomes :
       eng' = [eng EXCEPT ![r].finals = Finals(eng[r], ok, "finalize", "execution_error"),
                          ![r].wrote = Wrote(eng[r], "failed"),
                          ![r].ret = fail_ret]
  /\ status' = update_workflow_status(status, eng[r].wf, "failed")
  /\ log' = fail_log(log, r, "EXECUTION_ERROR")
  /\ pc' = [pc EXCEPT ![r] = "done"]
  /\ UNCHANGED <<tasksOf, granted, chat, invoked, liveMsgs, bgThinking, faultMode, storeUp,
                 routeCalls, probe>>


(***************************************************************************)
(* The callers of the engine.  Requests are served one at a time: a new   *)
(* engine instance is made only when no run is in flight.                  *)
(***************************************************************************)
NoActiveRun == \A r \in RunIds : pc[r] \in IdlePcs
HasFresh == \E r \in RunIds : pc[r] = "new"
Fresh == CHOOSE r \in RunIds : pc[r] = "new" /\ \A q \in RunIds : pc[q] = "new" => r <= q

\* Variant: a document without an owner is accepted.
load_returns_IgnoresOwner(doc, up) == up /\ doc.found

\* The value of load_workflow: False when the read raises, when there is no
\* document, and when the document has no user_id.
load_returns(doc, up) ==
  IF ~up THEN FALSE
  ELSE IF ~doc.found THEN FALSE
  ELSE IF doc.user_id \in {NoVal, ""} THEN FALSE
  ELSE TRUE

\* The engine instance after load_workflow returned False
not_loaded(w, backend, caller, doc) ==
  [NewEngine EXCEPT !.wf = w, !.backend = backend, !.caller = caller,
                    !.doc = doc, !.loadUp = storeUp, !.ret = FalseRet]

\* parsed_data.get('tasks', []) of the document read under id w; a document
\* that is none of the owner's workflows carries no task list.
StoredTasks(w) == IF w \in WfIds THEN tasksOf[w] ELSE <<>>

\* The status field of the document read under id w
StoredStatus(w) == IF w \in WfIds THEN status[w] ELSE "pending"

\* EnhancedWorkflowExecutor(workflow_id, telegram_update) and load_workflow
load_workflow(w, backend, caller) ==
  [NewEngine EXCEPT !.wf = w, !.backend = backend, !.caller = caller,
                    !.doc = OwnedDoc, !.loadUp = storeUp, !.loaded = TRUE,
                    !.tasks = StoredTasks(w), !.startedOn = StoredStatus(w),
                    !.tools = create_tools_for_workflow(StoredTasks(w))]

\* get_pending_workflows; the read fails when the store is unavailable
get_pending_workflows == IF storeUp THEN {w \in WfIds : status[w] = "pending"} ELSE {}

\* Variant: the pending workflow created first is taken.
Latest_Earliest(ws) == CHOOSE w \in ws : \A v \in ws : w <= v

\* max(pending_workflows, key=created_at): ids are given in creation order
Latest(ws) == CHOOSE w \in ws : \A v \in ws : v <= w

\* handle_backend_response followed by execute_workflow_with_thinking, up to
\* the first await of the run.  The gate reads the token document only for a
\* non-empty set of required scopes; the read raises when the store does not
\* answer.
HandleBackendResponse(w) ==
  /\ chat[w] = "new"
  /\ NoActiveRun
  /\ LET tasks == tasksOf[w]
         required == extract_required_scopes_from_workflow(tasks)
     IN  IF validate_workflow(tasks).missing # <<>>
         THEN /\ chat' = [chat EXCEPT ![w] = "rejected"]
              /\ UNCHANGED <<pc, eng>>
         ELSE IF required # {} /\ ~storeUp
         THEN /\ chat' = [chat EXCEPT ![w] = "gate_error"]
              /\ UNCHANGED <<pc, eng>>
         ELSE IF get_missing_scopes(granted, required) # {}
         THEN /\ chat' = [chat EXCEPT ![w] = "suspended"]
              /\ UNCHANGED <<pc, eng>>
         ELSE IF ~load_returns(OwnedDoc, storeUp)
         THEN /\ HasFresh
              /\ chat' = [chat EXCEPT ![w] = "load_failed"]
              /\ eng' = [eng EXCEPT ![Fresh] = not_loaded(w, "interactive", "chat", OwnedDoc)]
              /\ pc' = [pc EXCEPT ![Fresh] = "not_loaded"]
         ELSE /\ HasFresh
              /\ chat' = [chat EXCEPT ![w] = "executed"]
              /\ eng' = [eng EXCEPT ![Fresh] = load_workflow(w, "interactive", "chat")]
              /\ pc' = [pc EXCEPT ![Fresh] = "announce"]
  /\ UNCHANGED <<status, log, tasksOf, granted, invoked, liveMsgs, bgThinking, faultMode,
                 storeUp, routeCalls, probe>>

\* oauth_callback: save the tokens, then start the latest pending workflow of
\* the owner with the background backend.  save_google_tokens raises when the
\* store does not answer, and the callback then does nothing.
OAuthCallback(scopes) ==
  /\ HasFresh
  /\ storeUp
  /\ granted' = save_google_tokens(granted, scopes)
  /\ IF get_pending_workflows # {}
     THEN /\ eng' = [eng EXCEPT ![Fresh] =
                       load_workflow(Latest(get_pending_workflows), "background", "oauth")]
          /\ pc' = [pc EXCEPT ![Fresh] = "announce"]
     ELSE UNCHANGED <<pc, eng>>
  /\ UNCHANGED <<status, log, tasksOf, chat, invoked, liveMsgs, bgThinking, faultMode,
                 storeUp, routeCalls, probe>>

\* execute_pending_workflows: an engine with the background backend for a
\* pending workflow of the owner
ExecutePending(w) ==
  /\ HasFresh
  /\ w \in get_pending_workflows
  /\ eng' = [eng EXCEPT ![Fresh] = load_workflow(w, "background", "execute_pending")]
  /\ pc' = [pc EXCEPT ![Fresh] = "announce"]
  /\ UNCHANGED <<status, log, tasksOf, granted, chat, invoked, liveMsgs, bgThinking,
                 faultMode, storeUp, routeCalls, probe>>

\* What execute_workflow_with_tools returns for a loaded workflow: the
\* coroutine object of execute_workflow, which nothing awaits.
CoroutineRet == [kind |-> "coroutine", success |-> TRUE, results |-> <<>>]

\* The ids POST /{workflow_id}/execute can be called with, each with the
\* document it names (0: a document that is none of the owner's workflows).
EndpointTargets ==
  {[wf |-> w, doc |-> OwnedDoc] : w \in WfIds}
  \cup {[wf |-> 0, doc |-> OwnerlessDoc], [wf |-> 0, doc |-> AbsentDoc]}

\* execute_workflow_endpoint -> execute_workflow_with_tools
ExecuteEndpoint(t) ==
  /\ HasFresh
  /\ IF load_returns(t.doc, storeUp)
     THEN /\ eng' = [eng EXCEPT ![Fresh] =
                       [load_workflow(t.wf, "background", "endpoint")
                          EXCEPT !.doc = t.doc, !.ret = CoroutineRet]]
          /\ pc' = [pc EXCEPT ![Fresh] = "unawaited"]
     ELSE /\ eng' = [eng EXCEPT ![Fresh] = not_loaded(t.wf, "background", "endpoint", t.doc)]
          /\ pc' = [pc EXCEPT ![Fresh] = "not_loaded"]
  /\ UNCHANGED <<status, log, tasksOf, granted, chat, invoked, liveMsgs, bgThinking,
                 faultMode, storeUp, routeCalls, probe>>

(***************************************************************************)
(* Routes on a workflow (routes/workflow.py) and the environment.          *)
(***************************************************************************)
\* The entry "Status updated to <status>"
StatusUpdatedEntry == Entry(0, "info", "status_updated", NoVal, NoVal, 0)

\* What one call of the status route leaves in the store, from the status
\* and log fields st and lg: the status write, and the entry when the write
\* succeeded (a failed write ends the call with an error answer).
update_status_writes(st, lg, w, s) ==
  [status |-> update_workflow_status(st, w, s),
   log |-> IF storeUp THEN add_execution_log_entry(lg, w, StatusUpdatedEntry) ELSE lg]

\* PUT /{workflow_id}/status
update_status(w, s) ==
  /\ faultMode = "route"
  /\ routeCalls < MaxRouteCalls
  /\ storeUp
  /\ status' = update_status_writes(status, log, w, s).status
  /\ log' = update_status_writes(status, log, w, s).log
  /\ routeCalls' = routeCalls + 1
  /\ UNCHANGED <<tasksOf, granted, chat, pc, eng, invoked, liveMsgs, bgThinking, faultMode,
                 storeUp, probe>>

\* The entry "Workflow reset for retry"
RetryEntry == Entry(0, "info", "retry", NoVal, NoVal, 0)

\* Variant: a cancelled workflow is reset as well.
retry_applies_Any(found, st) == found /\ st \in {"failed", "cancelled"}

\* not (not workflow or workflow.get("status") != WorkflowStatus.FAILED)
retry_applies(found, st) == found /\ st = "failed"

\* POST /{workflow_id}/retry (retry_failed_workflow), for the id of a stored
\* workflow or for an id under which there is no document (0).  When the read
\* raises, the route answers 500 and nothing is written.
retry_failed_workflow(w) ==
  /\ IF storeUp /\ retry_applies(w \in WfIds, StoredStatus(w))
     THEN /\ status' = update_workflow_status(status, w, "pending")
          /\ log' = add_execution_log_entry(log, w, RetryEntry)
     ELSE UNCHANGED <<status, log>>
  /\ UNCHANGED <<tasksOf, granted, chat, pc, eng, invoked, liveMsgs, bgThinking, faultMode,
                 storeUp, routeCalls, probe>>

\* The document store stops answering, before a request or while a run is
\* in flight, and answers again later.
StoreOutage ==
  /\ faultMode = "store"
  /\ storeUp
  /\ ~NoActiveRun \/ \A r \in RunIds : pc[r] = "new"
  /\ storeUp' = FALSE
  /\ UNCHANGED <<status, log, tasksOf, granted, chat, pc, eng, invoked, liveMsgs,
                 bgThinking, faultMode, routeCalls, probe>>

StoreRecover ==
  /\ ~storeUp
  /\ ~NoActiveRun
  /\ storeUp' = TRUE
  /\ faultMode' = "store_recovered"
  /\ UNCHANGED <<status, log, tasksOf, granted, chat, pc, eng, invoked, liveMsgs,
                 bgThinking, routeCalls, probe>>

\* What a consent screen of the application grants (get_google_auth_url): the
\* scopes a suspended workflow was missing, or those of every action (/connect).
GrantChoices ==
  {GOOGLE_ACTION_SCOPES("email")}
  \cup {get_missing_scopes(granted, extract_required_scopes_from_workflow(tasksOf[w])) :
          w \in {v \in WfIds : chat[v] = "suspended"}}

Step(r) ==
  \/ Announce(r) \/ UpdValidating(r) \/ ValDelete(r)
  \/ UpdPermissions(r) \/ UpdPermissionsOutage(r) \/ UpdStartFail(r)
  \/ UpdStarting(r) \/ UpdNoTasks(r)
  \/ EmptyDelete(r) \/ UpdExecuting(r) \/ UpdTaskResult(r) \/ UpdOutcome(r)
  \/ OutDelete(r) \/ Final1(r) \/ Final2(r)
  \/ NotifierRaises(r) \/ HandlerRaises(r)
  \/ ExcUpdate(r) \/ ExcDelete(r) \/ ExcFinal(r)

Next ==
  \/ \E r \in 1..MaxRuns : Step(r)
  \/ \E w \in 1..MaxWorkflows : HandleBackendResponse(w)
  \/ \E scopes \in GrantChoices : OAuthCallback(scopes)
  \/ \E w \in 1..MaxWorkflows : ExecutePending(w)
  \/ \E t \in EndpointTargets : ExecuteEndpoint(t)
  \/ \E w \in 1..MaxWorkflows, s \in WorkflowStatus : update_status(w, s)
  \/ \E w \in 0..MaxWorkflows : retry_failed_workflow(w)
  \/ StoreOutage \/ StoreRecover

Spec == Init /\ [][Next]_vars


(***************************************************************************)
(* Two engine instances in flight at once: the task the OAuth callback     *)
(* creates runs on the event loop while other requests are served, and the *)
(* runs interleave at their awaits.  The store and the transport answer.   *)
(***************************************************************************)
MaxConcurrentRuns == 2
MaxConcurrentWorkflows == 2

ConcurrentTaskLists == {<<SendTask>>}

\* Each workflow of the owner is pending as saved, or was cancelled through
\* the status route before any run.
InitConcurrent ==
  /\ status \in [1..MaxConcurrentWorkflows -> {"pending", "cancelled"}]
  /\ log = [w \in 1..MaxConcurrentWorkflows |->
              IF status[w] = "pending" THEN <<CreatedEntry>>
              ELSE <<CreatedEntry, StatusUpdatedEntry>>]
  /\ tasksOf \in [1..MaxConcurrentWorkflows -> ConcurrentTaskLists]
  /\ granted = Tokens(GOOGLE_ACTION_SCOPES("email"))
  /\ chat = [w \in 1..MaxConcurrentWorkflows |-> "new"]
  /\ pc = [r \in 1..MaxConcurrentRuns |-> "new"]
  /\ eng = [r \in 1..MaxConcurrentRuns |-> NewEngine]
  /\ invoked = <<>>
  /\ liveMsgs = {}
  /\ bgThinking = 0
  /\ faultMode = "none"
  /\ storeUp = TRUE
  /\ routeCalls = 0
  /\ probe = NoProbe

\* The awaits of execute_workflow on a valid, non-empty list
RunStep(r) ==
  \/ Announce(r) \/ UpdValidating(r) \/ UpdPermissions(r) \/ UpdStarting(r)
  \/ UpdExecuting(r) \/ UpdTaskResult(r) \/ UpdOutcome(r)
  \/ OutDelete(r) \/ Final1(r) \/ Final2(r)

NextConcurrent ==
  \/ \E r \in 1..MaxConcurrentRuns : RunStep(r)
  \/ \E scopes \in GrantChoices : OAuthCallback(scopes)
  \/ \E w \in 1..MaxConcurrentWorkflows : ExecutePending(w)

SpecConcurrent == InitConcurrent /\ [][NextConcurrent]_vars

(***************************************************************************)
(* The functions of the handlers on inputs of their own: validation of a  *)
(* task list, the scopes a task list requires, the scopes an owner lacks.  *)
(***************************************************************************)
MaxProbeTasks == 2

ProbeTasks ==
  [action : {"email", "fax"},
   mode : {"send", "read", "draft", NoVal},
   recipient : {NoVal, " a@b.com ", "recipient@example.com"},
   subject : {"", "Hi", "Subject", " Subject "},
   query : {" ", "from:x", "search"}]

ProbeTaskLists == UNION {[1..n -> ProbeTasks] : n \in 0..MaxProbeTasks}

\* Tasks that differ in what the scopes depend on: action and mode
ProbeScopeTasks ==
  [action : {"email", "fax", NoVal},
   mode : {"send", "read", "draft", NoVal},
   recipient : {"a@b.com"}, subject : {"Hi"}, query : {NoVal}]

ProbeScopeTaskLists == UNION {[1..n -> ProbeScopeTasks] : n \in 0..MaxProbeTasks}

\* Every scope of GOOGLE_ACTION_SCOPES, and one of another service
ProbeScopes ==
  GOOGLE_ACTION_SCOPES("email") \cup GOOGLE_ACTION_SCOPES("email_send")
    \cup GOOGLE_ACTION_SCOPES("email_read") \cup {"calendar"}

ProbeTokens == {NoRecord, ScopelessRecord} \cup {Tokens(g) : g \in SUBSET ProbeScopes}

\* An application leaves the store and the engines as they are.
Unprobed ==
  UNCHANGED <<status, log, tasksOf, granted, chat, pc, eng, invoked, liveMsgs, bgThinking,
              faultMode, storeUp, routeCalls>>

\* _validate_email_tasks(tasks)
ApplyValidate ==
  /\ probe = NoProbe
  /\ \E tasks \in ProbeTaskLists :
       probe' = [op |-> "validate", tasks |-> tasks, out |-> _validate_email_tasks(tasks)]
  /\ Unprobed

\* extract_required_scopes_from_workflow(workflow), with the set each task
\* adds and the value for the list without its last task
ApplyExtractScopes ==
  /\ probe = NoProbe
  /\ \E tasks \in ProbeScopeTaskLists :
       probe' = [op |-> "scopes", tasks |-> tasks,
                 each |-> [j \in DOMAIN tasks |-> TaskScopes(tasks[j])],
                 front |-> IF tasks = <<>> THEN {}
                           ELSE extract_required_scopes_from_workflow(
                                  SubSeq(tasks, 1, Len(tasks) - 1)),
                 out |-> extract_required_scopes_from_workflow(tasks)]
  /\ Unprobed

\* get_missing_scopes(user_id, required_scopes) on the owner's token document
ApplyMissingScopes ==
  /\ probe = NoProbe
  /\ \E tokens \in ProbeTokens, required \in SUBSET GOOGLE_ACTION_SCOPES("email") :
       probe' = [op |-> "missing", tokens |-> tokens, required |-> required,
                 out |-> get_missing_scopes(tokens, required)]
  /\ Unprobed

\* The tasks _prepare_tool_arguments is applied to: a pair of the registry
\* or another one, and each optional field not there, None, empty or given.
PrepareValues == {NoVal, Null, "", "x"}

PrepareTasks ==
  [action : {"email", "fax"}, mode : {"send", "read", "draft"},
   recipient : {"a@b.com"}, query : PrepareValues,
   body : PrepareValues, cc : PrepareValues, bcc : PrepareValues]

\* _prepare_tool_arguments(action, task, mode), as _execute_task calls it
ApplyPrepareArguments ==
  /\ probe = NoProbe
  /\ \E task \in PrepareTasks :
       probe' = [op |-> "prepare", task |-> task,
                 path |-> TaskPath(task, {}),
                 out |-> _prepare_tool_arguments(task)]
  /\ Unprobed

\* ', '.join(names)
RECURSIVE JoinComma(_)
JoinComma(names) ==
  IF Len(names) <= 1 THEN names
  ELSE <<Head(names), ", ">> \o JoinComma(Tail(names))

\* The text _validate_email_tasks returns for the names it found, in pieces;
\* <<>> stands for None.
ValidationMessage(names) ==
  IF names = <<>> THEN <<>>
  ELSE IF Len(names) = 1
       THEN <<"You have not provided ", names[1], ". Please repeat with all required fields.">>
       ELSE <<"You have not provided ">> \o JoinComma(names)
              \o <<". Please repeat with all required fields.">>

\* The text validate_workflow returns with its flag
ChatValidationMessage(checked) ==
  IF ~checked.is_workflow THEN <<"not_workflow">>
  ELSE IF checked.missing = <<>> THEN <<>>
  ELSE IF Len(checked.missing) = 1
       THEN <<"You have not provided ", checked.missing[1],
              ". Please repeat with all required fields.">>
       ELSE <<"You have not provided ">> \o JoinComma(checked.missing)
              \o <<". Please repeat with all required fields.">>

\* The lists both validations are applied to: tasks of a conversation too,
\* and fields absent, blank, padded or holding a placeholder.
ChatProbeTasks ==
  [action : {"email", "fax", "conversation"},
   mode : {"send", "read", NoVal},
   recipient : {NoVal, " ", "recipient@example.com", " a@b.com "},
   subject : {"Hi", " "},
   query : {" ", "search", "from:x"}]

ChatProbeTaskLists == UNION {[1..n -> ChatProbeTasks] : n \in 0..MaxProbeTasks}

\* validate_workflow(workflow) in handle_backend_response and
\* _validate_email_tasks(tasks) in execute_workflow, on the same list
ApplyValidateBoth ==
  /\ probe = NoProbe
  /\ \E tasks \in ChatProbeTaskLists :
       probe' = [op |-> "validate_both", tasks |-> tasks,
                 chat |-> validate_workflow(tasks),
                 chat_message |-> ChatValidationMessage(validate_workflow(tasks)),
                 out |-> _validate_email_tasks(tasks),
                 message |-> ValidationMessage(_validate_email_tasks(tasks))]
  /\ Unprobed

\* A value of a token document's 'scope' field: a string (its pieces, " "
\* for each blank), a list, None, or the field not there.
ScopeStr(pieces) == [kind |-> "str", val |-> pieces]
ScopeList(items) == [kind |-> "list", val |-> items]
ScopeNone == [kind |-> "none", val |-> <<>>]
ScopeAbsent == [kind |-> "absent", val |-> <<>>]

IsWord(p) == p # " "

\* str.split()
split(pieces) == SelectSeq(pieces, IsWord)

\* Variant: a string is taken as no scope at all.
_normalize_scopes_ListOnly(scopes) ==
  IF scopes.kind = "list" THEN scopes.val ELSE <<>>

\* tokens.get("scope", []) through _normalize_scopes
_normalize_scopes(scopes) ==
  IF scopes.kind = "str" THEN split(scopes.val)
  ELSE IF scopes.kind = "list" THEN scopes.val
  ELSE <<>>

SeqRange(q) == {q[j] : j \in DOMAIN q}

\* list(set(...)): the elements once each, in an order the build picks
ListsOfSet(S) == {q \in [1..Cardinality(S) -> S] : SeqRange(q) = S}

NoTokenDoc == [exists |-> FALSE, scope |-> ScopeAbsent]

\* save_google_tokens on the stored document: the lists it can store
SavedScopeLists(doc, scope) ==
  LET existing_scopes == IF doc.exists THEN _normalize_scopes(doc.scope) ELSE <<>>
      new_scopes == _normalize_scopes(scope)
  IN  ListsOfSet(SeqRange(existing_scopes \o new_scopes))

\* The scope fields of the token documents saved: the provider's string,
\* with one blank or two between scopes, a list, a list that repeats a
\* scope, None and no field.
SavedScopeInputs ==
  {ScopeStr(<<"gmail.send">>), ScopeStr(<<"gmail.send", " ", "gmail.compose">>),
   ScopeStr(<<"gmail.readonly", " ", " ", "gmail.send">>), ScopeStr(<<>>),
   ScopeList(<<"gmail.readonly">>), ScopeList(<<"gmail.compose", "gmail.compose">>),
   ScopeList(<<>>), ScopeNone, ScopeAbsent}

MaxSaves == 3

\* One more save_google_tokens for the owner: saves are the scope fields
\* supplied so far, stored the document, merged what the store adapter of
\* the engine model holds after the same saves.
ApplySave ==
  /\ probe.op \in {"none", "save"}
  /\ probe.op = "save" => Len(probe.saves) < MaxSaves
  /\ \E scope \in SavedScopeInputs :
       LET before == IF probe.op = "save" THEN probe.stored ELSE NoTokenDoc
           saves == IF probe.op = "save" THEN probe.saves ELSE <<>>
           merged == IF probe.op = "save" THEN probe.merged ELSE NoRecord
       IN  \E stored \in SavedScopeLists(before, scope) :
             probe' = [op |-> "save", saves |-> Append(saves, scope),
                       before |-> before,
                       stored |-> [exists |-> TRUE, scope |-> ScopeList(stored)],
                       merged |-> save_google_tokens(merged,
                                     SeqRange(_normalize_scopes(scope)))]
  /\ Unprobed

\* The gate of the chat handler and the scope check of each task's
\* capability, on the same workflow and token document
ApplyGate ==
  /\ probe = NoProbe
  /\ \E tasks \in ProbeScopeTaskLists, tokens \in ProbeTokens :
       probe' = [op |-> "gate", tasks |-> tasks, tokens |-> tokens,
                 missing |-> get_missing_scopes(tokens,
                                extract_required_scopes_from_workflow(tasks)),
                 tool |-> [j \in DOMAIN tasks |->
                             create_tool_for_action(tasks[j].action, tasks[j].mode)],
                 passes |-> [j \in DOMAIN tasks |->
                               ScopeCheck(tokens,
                                 create_tool_for_action(tasks[j].action, tasks[j].mode))]]
  /\ Unprobed

\* start_execution, complete_execution and fail_execution, of the engine and
\* of the helper class WorkflowExecutor, with the status each writes
LifecycleOps == {"start", "complete", "fail"}

LifecycleClasses == {"EnhancedWorkflowExecutor", "WorkflowExecutor"}

LifecycleStatus(op) ==
  CASE op = "start" -> "in_progress"
    [] op = "complete" -> "completed"
    [] op = "fail" -> "failed"

\* The entry each appends; only fail_execution passes an error code on.
LifecycleEntry(op, code) ==
  CASE op = "start" -> Entry(0, "info", "started", NoVal, NoVal, 0)
    [] op = "complete" -> Entry(0, "success", "completed", NoVal, NoVal, 0)
    [] op = "fail" -> Entry(0, "error", "failed", NoVal, code, 0)

\* What the caller gets: the engine's complete_execution returns the tuple
\* (success, final_message), every other one the boolean.
LifecycleRet(cls, op, success) ==
  [kind |-> IF cls = "EnhancedWorkflowExecutor" /\ op = "complete" THEN "pair" ELSE "bool",
   success |-> success]

\* Variant: the entry is appended whatever the status write returned.
Lifecycle_LogsAnyway(cls, op, doc, statusOk, logOk, code) ==
  [status |-> IF statusOk THEN LifecycleStatus(op) ELSE doc.status,
   log |-> IF logOk THEN Append(doc.log, LifecycleEntry(op, code)) ELSE doc.log,
   ret |-> LifecycleRet(cls, op, statusOk)]

\* success = update_workflow_status(...); if success: add_execution_log_entry(...);
\* return success.  statusOk and logOk are what the two store calls meet: each
\* catches its own failure, returns False and leaves its field as it was.
Lifecycle(cls, op, doc, statusOk, logOk, code) ==
  LET success == statusOk
  IN [status |-> IF statusOk THEN LifecycleStatus(op) ELSE doc.status,
      log |-> IF success /\ logOk THEN Append(doc.log, LifecycleEntry(op, code)) ELSE doc.log,
      ret |-> LifecycleRet(cls, op, success)]

\* The documents the three are applied to, and the error codes the engine uses
LifecycleDocs ==
  [status : {"pending", "in_progress"},
   log : {<<>>, <<CreatedEntry>>, <<CreatedEntry, Entry(0, "info", "started", NoVal, NoVal, 0)>>}]

LifecycleCodes == {NoVal, "VALIDATION_ERROR", "EXECUTION_FAILURE", "EXECUTION_ERROR"}

ApplyLifecycle ==
  /\ probe = NoProbe
  /\ \E cls \in LifecycleClasses, op \in LifecycleOps, doc \in LifecycleDocs,
        statusOk \in BOOLEAN, logOk \in BOOLEAN, code \in LifecycleCodes :
       probe' = [op |-> "lifecycle", cls |-> cls, call |-> op, doc |-> doc,
                 statusOk |-> statusOk, logOk |-> logOk, code |-> code,
                 out |-> Lifecycle(cls, op, doc, statusOk, logOk, code)]
  /\ Unprobed

InitFunctions ==
  /\ Init
  /\ tasksOf = [w \in WfIds |-> <<>>]
  /\ granted = NoRecord
  /\ faultMode = "none"

NextFunctions ==
  ApplyValidate \/ ApplyExtractScopes \/ ApplyMissingScopes \/ ApplyPrepareArguments
    \/ ApplyLifecycle \/ ApplyGate \/ ApplyValidateBoth \/ ApplySave

SpecFunctions == InitFunctions /\ [][NextFunctions]_vars


(***************************************************************************)
(* Properties.  A run r is described by what it recorded: wrote (its       *)
(* status writes, with whether the store took each), results, finals, ret. *)
(***************************************************************************)
LastWrite(r) == eng[r].wrote[Len(eng[r].wrote)]

LastEntry(w) == log[w][Len(log[w])]

InvokedBy(r) == SelectSeq(invoked, LAMBDA c : c.run = r)

EntriesBy(r) == {j \in DOMAIN log[eng[r].wf] : log[eng[r].wf][j].by = r}

\* execute_workflow returned, and not through its except clause
Returned(r) == pc[r] = "done" /\ ~eng[r].exc /\ eng[r].ret.kind # "raised"

\* ... after the task loop
LoopDone(r) == Returned(r) /\ eng[r].i >= 1

\* ... from the validation branch
ValidationFailed(r) == Returned(r) /\ eng[r].i = 0 /\ eng[r].wrote # <<>> /\ LastWrite(r).st = "failed"

\* ... from the empty-list branch (after start_execution succeeded)
EmptyDone(r) == Returned(r) /\ eng[r].tasks = <<>> /\ Len(eng[r].wrote) = 2

\* The store failed to answer at some point of the behaviour.
StoreEverDown == ~storeUp \/ faultMode = "store_recovered"

\* C1: a run that went through the task loop with n > 0 tasks, k of them
\* successful, sets the status to completed when k = n and when 0 < k < n, and
\* to failed when k = 0; the store holds that status when it took the write
\* and nothing wrote after it, and for k = 0 the failure entry of the log
\* carries the error code EXECUTION_FAILURE.
C1_AggregateOutcome ==
  \A r \in RunIds :
    LoopDone(r) =>
      LET e == eng[r]
          k == Cardinality({j \in DOMAIN e.results : e.results[j].success})
          expected == IF k > 0 THEN "completed" ELSE "failed"
      IN  /\ LastWrite(r).st = expected
          /\ LastWrite(r).ok =>
                /\ \E j \in EntriesBy(r) :
                      LET x == log[e.wf][j]
                      IN  IF k > 0 THEN x.type = "success" /\ x.msg = "completed"
                          ELSE x.type = "error" /\ x.error_code = "EXECUTION_FAILURE"
                /\ LastEntry(e.wf).by = r => status[e.wf] = expected

\* A run of two tasks, one successful and one failed, left the status completed.
C1_Witness ==
  \E r \in RunIds :
    /\ LoopDone(r)
    /\ Len(eng[r].results) = 2
    /\ eng[r].results[1].success /\ ~eng[r].results[2].success
    /\ LastWrite(r).ok
    /\ status[eng[r].wf] = "completed"

\* C2: a run on a workflow whose required scopes are not all granted invokes
\* no capability, writes no status (the status stays pending) and appends no
\* error entry.
C2_NoRunWithoutScopes ==
  \A r \in RunIds :
    (/\ pc[r] \notin {"new", "done"}
     /\ get_missing_scopes(granted, extract_required_scopes_from_workflow(eng[r].tasks)) # {})
    => /\ InvokedBy(r) = <<>>
       /\ eng[r].wrote = <<>>
       /\ \A j \in EntriesBy(r) : log[eng[r].wf][j].type # "error"

\* C3: a run started on a workflow whose stored status was terminal invokes
\* no capability and writes no status.
C3_NoRunOnTerminal ==
  \A r \in RunIds :
    (pc[r] # "new" /\ eng[r].startedOn \in Terminal)
    => /\ InvokedBy(r) = <<>>
       /\ eng[r].wrote = <<>>

\* C4: a run on a list in which an email task lacks a required field never
\* invokes a capability and never writes in_progress; when it returns, its one
\* status write is failed, and the store, when it took the write, holds failed
\* (until something else writes) and a failure entry with VALIDATION_ERROR.
C4_ValidationFailure ==
  \A r \in RunIds :
    (pc[r] # "new" /\ MissingFields(eng[r].tasks) # <<>>)
    => LET e == eng[r]
       IN  /\ InvokedBy(r) = <<>>
           /\ \A j \in DOMAIN e.wrote : e.wrote[j].st # "in_progress"
           /\ Returned(r) =>
                 /\ Len(e.wrote) = 1 /\ e.wrote[1].st = "failed"
                 /\ e.wrote[1].ok =>
                       /\ \E j \in EntriesBy(r) :
                             /\ log[e.wf][j].type = "error"
                             /\ log[e.wf][j].error_code = "VALIDATION_ERROR"
                       /\ LastEntry(e.wf).by = r => status[e.wf] = "failed"

\* A run on a complete task followed by an incomplete one returned with the
\* status failed.
C4_Witness ==
  \E r \in RunIds :
    /\ ValidationFailed(r)
    /\ eng[r].tasks = <<SendTask, PlaceholderTask>>
    /\ eng[r].wrote[1].ok
    /\ status[eng[r].wf] = "failed"

\* C5: a run on an empty list invokes no capability; when it returns from the
\* empty-list branch it reports a pair with an empty result set whose flag is
\* the outcome of its write of completed, the store holds completed when it
\* took the write (until something else writes), and the log holds the
\* run's warning entry unless the store failed to answer.
C5_EmptyList ==
  \A r \in RunIds :
    (pc[r] # "new" /\ eng[r].tasks = <<>>)
    => LET e == eng[r]
       IN  /\ InvokedBy(r) = <<>>
           /\ EmptyDone(r) =>
                 /\ e.ret.kind = "pair" /\ e.ret.results = <<>>
                 /\ LastWrite(r).st = "completed"
                 /\ e.ret.success = LastWrite(r).ok
                 /\ (LastWrite(r).ok /\ LastEntry(e.wf).by = r) => status[e.wf] = "completed"
                 /\ ~StoreEverDown =>
                       /\ e.ret.success
                       /\ \E j \in EntriesBy(r) : log[e.wf][j].type = "warning"

\* A run on an empty list returned success and left the status completed.
C5_Witness ==
  \E r \in RunIds :
    /\ EmptyDone(r)
    /\ eng[r].ret.success
    /\ status[eng[r].wf] = "completed"
    /\ \E j \in EntriesBy(r) : log[eng[r].wf][j].type = "warning"

\* C6: the invocations of a run are made in list order, and a run that
\* returns after the loop has invoked exactly the tasks of the list that reach
\* their capability, whatever the earlier tasks did.
C6_InvocationOrder ==
  \A r \in RunIds :
    LET inv == InvokedBy(r)
        e == eng[r]
    IN  /\ \A a, b \in DOMAIN inv : a < b => inv[a].idx < inv[b].idx
        /\ LoopDone(r) =>
              {inv[a].idx : a \in DOMAIN inv}
                = {j \in DOMAIN e.tasks : TaskPath(e.tasks[j], e.tools) = "invoke"}

\* The first invocation of a run threw and the second was made after it.
C6_Witness ==
  \E r \in RunIds :
    /\ LoopDone(r)
    /\ Len(InvokedBy(r)) = 2
    /\ InvokedBy(r)[1].idx = 1 /\ InvokedBy(r)[1].out = "threw"
    /\ InvokedBy(r)[2].idx = 2 /\ InvokedBy(r)[2].out = "ok"

\* C7: an invocation that throws leaves a failed per-task result with an
\* error, and a run that returns after the loop has recorded exactly one
\* result per task, in order.
C7_ThrowBecomesFailure ==
  \A r \in RunIds :
    LET inv == InvokedBy(r)
        e == eng[r]
    IN  /\ LoopDone(r) =>
              /\ Len(e.results) = Len(e.tasks)
              /\ \A j \in DOMAIN e.results : e.results[j].task_index = j
        /\ \A a \in DOMAIN inv :
              (inv[a].out = "threw" /\ inv[a].idx <= Len(e.results))
              => /\ ~e.results[inv[a].idx].success
                 /\ e.results[inv[a].idx].error # NoVal

\* The first of two invocations threw, and the run went on to a second task
\* that succeeded.
C7_Witness ==
  \E r \in RunIds :
    /\ LoopDone(r)
    /\ Len(eng[r].results) = 2
    /\ InvokedBy(r) # <<>> /\ InvokedBy(r)[1].out = "threw"
    /\ ~eng[r].results[1].success /\ eng[r].results[2].success

\* C8: an invocation that returns an explicit failure without throwing
\* leaves a failed per-task result.
C8_ReturnedFailureIsFailure ==
  \A r \in RunIds :
    LET inv == InvokedBy(r)
        e == eng[r]
    IN  \A a \in DOMAIN inv :
          (inv[a].out = "returned_failure" /\ inv[a].idx <= Len(e.results))
          => ~e.results[inv[a].idx].success

\* C9: when execute_workflow has returned, and the transport delivered every
\* call, the thinking message the run announced is no longer shown.
C9_ThinkingRetired ==
  \A r \in RunIds :
    (pc[r] = "done" /\ eng[r].ret.kind # "raised" /\ faultMode # "transport")
    => r \notin liveMsgs

\* C10: a run on a non-empty list that returned after writing a terminal
\* status sent, when the transport delivered every call, exactly one final
\* message.
C10_OneFinalMessage ==
  \A r \in RunIds :
    (/\ pc[r] = "done" /\ eng[r].ret.kind # "raised" /\ faultMode # "transport"
     /\ eng[r].tasks # <<>> /\ eng[r].wrote # <<>> /\ LastWrite(r).st \in Terminal)
    => Len(SelectSeq(eng[r].finals, LAMBDA f : f.via = "finalize")) = 1

\* C11: a run whose try block raised outside the per-task boundary ends with
\* the exception caught: execute_workflow returns (nothing escapes), the run's
\* last status write is failed, and the thinking message is no longer shown.
C11_ExceptionCaught ==
  \A r \in RunIds :
    (eng[r].exc /\ pc[r] = "done")
    => /\ eng[r].ret.kind # "raised"
       /\ eng[r].wrote # <<>> /\ LastWrite(r).st = "failed"
       /\ (faultMode # "transport") => r \notin liveMsgs

\* The text the engine is said to report for a pair without a capability.
NoToolError == "No tool available for action: <action> and mode: <mode>"

\* C12: a task whose (action, mode) pair is not in the registry leaves the
\* per-task result {success: false, error: "No tool available for action:
\* <action> and mode: <mode>"}.
C12_UnresolvableCapability ==
  \A r \in RunIds :
    LET e == eng[r]
    IN  \A j \in DOMAIN e.results :
          TaskPath(e.tasks[Position(Len(e.tasks), j)], e.tools) = "no_tool"
          => /\ ~e.results[j].success
             /\ e.results[j].error = NoToolError

\* The per-task entries a run left in the log, in log order.
ToolEntriesBy(r) ==
  SelectSeq(log[eng[r].wf], LAMBDA x : x.by = r /\ x.msg = "tool_result")

\* C13: a run that returns after the loop with 0 < k < n successes, the store
\* having answered every call, left in the log exactly one warning entry and
\* exactly one per-task entry for each task, in task order: of type success for
\* a succeeded task and error for a failed one, tagged with the name the
\* engine logs for the task and with the task index.
C13_PartialSuccessLog ==
  \A r \in RunIds :
    LET e == eng[r]
        k == Cardinality({j \in DOMAIN e.results : e.results[j].success})
    IN  (LoopDone(r) /\ 0 < k /\ k < Len(e.tasks) /\ ~StoreEverDown)
        => /\ Cardinality({j \in EntriesBy(r) : log[e.wf][j].type = "warning"}) = 1
           /\ Len(ToolEntriesBy(r)) = Len(e.tasks)
           /\ \A j \in DOMAIN ToolEntriesBy(r) :
                LET x == ToolEntriesBy(r)[j]
                IN  /\ x.type = (IF e.results[j].success THEN "success" ELSE "error")
                    /\ x.task_index = j
                    /\ x.tool_name = (IF e.tasks[j].action = NoVal THEN "unknown"
                                      ELSE e.tasks[j].action)

\* A run of two tasks, the first failed and the second successful, returned
\* and left its two per-task entries and its warning.
C13_Witness ==
  \E r \in RunIds :
    /\ LoopDone(r) /\ ~StoreEverDown
    /\ Len(eng[r].results) = 2
    /\ ~eng[r].results[1].success /\ eng[r].results[2].success
    /\ Len(ToolEntriesBy(r)) = 2
    /\ ToolEntriesBy(r)[1].type = "error" /\ ToolEntriesBy(r)[2].type = "success"

\* Every scope the gate requires for the list is in the owner's token document.
ScopesGranted(tasks) ==
  \/ extract_required_scopes_from_workflow(tasks) = {}
  \/ granted.exists /\ extract_required_scopes_from_workflow(tasks) \subseteq granted.scope

\* No engine instance was made for workflow w.
NeverRun(w) == \A r \in RunIds : pc[r] = "new" \/ eng[r].wf # w

LacksActionOrMode(task) == task.action = NoVal \/ task.mode = NoVal

C16_ReturnsPair ==
  \A r \in RunIds :
    (pc[r] = "done" /\ eng[r].ret.kind # "raised") => eng[r].ret.kind = "pair"

\* execute_workflow_with_tools has returned to the execute route.
EndpointReturned(r) == eng[r].caller = "endpoint" /\ pc[r] \in {"unawaited", "not_loaded"}

\* C17: when execute_workflow_with_tools has returned for a workflow that
\* load_workflow accepted, its value is a bool, the engine has a result for
\* every task and the stored status is completed or failed; for a workflow
\* that cannot be loaded its value is False.
C17_EndpointRunsWorkflow ==
  \A r \in RunIds :
    EndpointReturned(r)
    => IF eng[r].loaded
       THEN /\ eng[r].ret.kind = "bool"
            /\ Len(eng[r].results) = Len(eng[r].tasks)
            /\ status[eng[r].wf] \in {"completed", "failed"}
       ELSE eng[r].ret = FalseRet

\* What load_workflow met: the read answered, a document was found, and the
\* document names an owner.
Loadable(e) == e.loadUp /\ e.doc.found /\ e.doc.user_id \notin {NoVal, ""}

\* C18: load_workflow returns True exactly when the read answered and found
\* a document with an owner; in every other case the instance is left with
\* the value False, no tool, no task list, no status write, no invocation
\* and no log entry of its own, and the step in which it returned False
\* changed no stored workflow.
C18_FailedLoad ==
  /\ [](\A r \in RunIds :
          pc[r] # "new"
          => /\ eng[r].loaded <=> Loadable(eng[r])
             /\ ~Loadable(eng[r])
                => /\ pc[r] = "not_loaded"
                   /\ eng[r].ret = FalseRet
                   /\ eng[r].tools = {} /\ eng[r].tasks = <<>>
                   /\ eng[r].wrote = <<>> /\ eng[r].results = <<>>
                   /\ \A j \in DOMAIN invoked : invoked[j].run # r
                   /\ \A w \in WfIds : \A j \in DOMAIN log[w] : log[w][j].by # r)
  /\ [][\A r \in RunIds :
          (pc[r] = "new" /\ pc'[r] = "not_loaded")
          => /\ status' = status /\ log' = log /\ tasksOf' = tasksOf
             /\ invoked' = invoked]_vars

\* load_workflow returned False on a document without an owner.
C18_Witness ==
  \E r \in RunIds :
    /\ pc[r] = "not_loaded" /\ eng[r].ret = FalseRet
    /\ eng[r].loadUp /\ eng[r].doc = OwnerlessDoc

\* load_workflow returned False because the read raised.
C18_WitnessStoreDown ==
  \E r \in RunIds :
    pc[r] = "not_loaded" /\ ~eng[r].loadUp /\ eng[r].doc = OwnedDoc

\* load_workflow returned False because there is no document.
C18_WitnessAbsent ==
  \E r \in RunIds :
    pc[r] = "not_loaded" /\ eng[r].loadUp /\ eng[r].doc = AbsentDoc

C20_AppendOnly ==
  [][\A w \in WfIds :
       /\ Len(log'[w]) >= Len(log[w])
       /\ SubSeq(log'[w], 1, Len(log[w])) = log[w]]_vars

\* The log holds the creation entry, the entries of a run that ended failed,
\* and the retry entry after them.
C20_Witness ==
  \E w \in WfIds :
    /\ Len(log[w]) >= 4
    /\ log[w][1] = CreatedEntry
    /\ log[w][2].msg = "started"
    /\ log[w][Len(log[w])] = RetryEntry

\* C21: from every reachable store content, for every workflow and status
\* value, two calls in a row leave the same status and log as one call:
\* of update_workflow_status, and of the status route.
C21_SetStatusIdempotent ==
  \A w \in WfIds, s \in WorkflowStatus :
    LET once == update_status_writes(status, log, w, s)
        twice == update_status_writes(once.status, once.log, w, s)
    IN  /\ update_workflow_status(update_workflow_status(status, w, s), w, s)
             = update_workflow_status(status, w, s)
        /\ twice.status = once.status
        /\ twice.log = once.log

RequiredFields(task) ==
  IF task.action # "email" THEN <<>>
  ELSE IF task.mode = "read" THEN <<"query">>
  ELSE <<"recipient", "subject">>

\* The values that count as a missing field: absent, empty, whitespace, and
\* the placeholders of the field, also with blanks around them.
LackValues(field) ==
  {NoVal, "", " "} \cup placeholder_patterns[field]
    \cup (IF field = "subject" THEN {" Subject "} ELSE {})

\* The places (task, required field) of a list at which field f is lacking,
\* numbered in the order the list is read.
LackPlaces(tasks, f) ==
  {p \in 1..(2 * Len(tasks) + 2) :
     \E j \in DOMAIN tasks, k \in 1..2 :
       /\ p = 2 * j + k
       /\ k \in DOMAIN RequiredFields(tasks[j])
       /\ RequiredFields(tasks[j])[k] = f
       /\ tasks[j][f] \in LackValues(f)}

FirstPlace(tasks, f) ==
  CHOOSE p \in LackPlaces(tasks, f) : \A q \in LackPlaces(tasks, f) : p <= q

\* C23: the value of _validate_email_tasks names exactly the required fields
\* some email task of the list lacks (none when there is no such field, and
\* none ever for a task of another action), each once, in the order
\* of their first occurrence in the list; for the one task with the
\* placeholder recipient and subject it names recipient, subject.
C23_ValidationMessage ==
  probe.op = "validate"
  => LET tasks == probe.tasks
         out == probe.out
         lacking == {f \in {"recipient", "subject", "query"} : LackPlaces(tasks, f) # {}}
     IN  /\ (out # <<>>) <=> (lacking # {})
         /\ {out[i] : i \in DOMAIN out} = lacking
         /\ Len(out) = Cardinality(lacking)
         /\ \A a, b \in DOMAIN out :
              a < b => FirstPlace(tasks, out[a]) < FirstPlace(tasks, out[b])
         /\ (\A j \in DOMAIN tasks : tasks[j].action # "email") => out = <<>>
         /\ tasks = <<PlaceholderTask>> => out = <<"recipient", "subject">>

\* Validation was applied to a read task with a blank query followed by a
\* task without mode whose recipient is absent and whose subject is a
\* placeholder between blanks: the message names query, recipient, subject.
C23_Witness ==
  /\ probe.op = "validate"
  /\ Len(probe.tasks) = 2
  /\ probe.tasks[1].action = "email" /\ probe.tasks[2].action = "email"
  /\ probe.tasks[1].mode = "read" /\ probe.tasks[1].query = " "
  /\ probe.tasks[2].mode = NoVal /\ probe.tasks[2].recipient = NoVal
  /\ probe.tasks[2].subject = " Subject "
  /\ probe.out = <<"query", "recipient", "subject">>

\* C24: the scopes a task list requires are the union of the sets its tasks
\* add; a task of another action (or without action) adds none; an email
\* task whose mode is given and is neither send nor read adds every scope of
\* the send set and of the read set; and the list requires every scope the
\* list without its last task requires.
C24_RequiredScopes ==
  probe.op = "scopes"
  => LET tasks == probe.tasks
     IN  /\ probe.out = UNION {probe.each[j] : j \in DOMAIN tasks}
         /\ \A j \in DOMAIN tasks :
              /\ tasks[j].action # "email" => probe.each[j] = {}
              /\ (tasks[j].action = "email" /\ tasks[j].mode \notin {"send", "read", NoVal})
                 => GOOGLE_ACTION_SCOPES("email_send") \cup GOOGLE_ACTION_SCOPES("email_read")
                      \subseteq probe.each[j]
              /\ (tasks[j].action = "email" /\ tasks[j].mode = "read")
                 => probe.each[j] = GOOGLE_ACTION_SCOPES("email_read")
              /\ (tasks[j].action = "email" /\ tasks[j].mode = "send")
                 => probe.each[j] = GOOGLE_ACTION_SCOPES("email_send")
         /\ probe.front \subseteq probe.out

\* The scopes of a send task followed by an email task of mode draft: the
\* second task adds the read scope to the ones of the first.
C24_Witness ==
  /\ probe.op = "scopes"
  /\ Len(probe.tasks) = 2
  /\ probe.tasks[1].action = "email" /\ probe.tasks[1].mode = "send"
  /\ probe.tasks[2].action = "email" /\ probe.tasks[2].mode = "draft"
  /\ probe.front = GOOGLE_ACTION_SCOPES("email_send")
  /\ "gmail.readonly" \in probe.out \ probe.front

\* C25: the missing scopes are the required ones minus the granted ones;
\* all the required ones when there is no token document or the document
\* has no scope field; always a subset of the required ones, and empty
\* exactly when every required scope is granted.
C25_MissingScopes ==
  probe.op = "missing"
  => LET t == probe.tokens
         grantedNow == IF t.exists /\ t.has_scope THEN t.scope ELSE {}
     IN  /\ probe.out = probe.required \ grantedNow
         /\ (~t.exists \/ ~t.has_scope) => probe.out = probe.required
         /\ probe.out \subseteq probe.required
         /\ (probe.out = {}) <=> (probe.required \subseteq grantedNow)

\* The owner granted the send scopes and a scope of another service; the
\* send and read scopes are required; the read scope is missing.
C25_Witness ==
  /\ probe.op = "missing"
  /\ probe.tokens = Tokens(GOOGLE_ACTION_SCOPES("email_send") \cup {"calendar"})
  /\ probe.required = {"gmail.send", "gmail.readonly"}
  /\ probe.out = {"gmail.readonly"}

\* The positions of a run at which its next await edits or deletes the
\* thinking message.
ThinkingPcs ==
  {"upd_validating", "upd_permissions", "upd_startfail", "upd_starting", "upd_notasks",
   "upd_executing", "upd_taskresult", "upd_outcome", "out_delete", "val_delete",
   "empty_delete"}

\* C26: of two runs on different workflows, each one, while its thinking
\* message is up, edits and deletes the message it announced itself, and
\* when both have returned no thinking message is shown any more.
C26_RunsDoNotInterfere ==
  \A r, q \in RunIds :
    (r # q /\ pc[r] # "new" /\ pc[q] # "new" /\ eng[r].wf # eng[q].wf)
    => /\ (pc[r] \in ThinkingPcs /\ eng[r].thinking_message_id # 0)
          => DeleteTarget(r) = eng[r].thinking_message_id
       /\ (pc[r] = "done" /\ pc[q] = "done") => liveMsgs = {}

\* The runs made for workflow w
RunsOn(w) == {r \in RunIds : pc[r] # "new" /\ eng[r].wf = w}

\* C27: nothing keeps a second run from a workflow a first run is working
\* on: every run that got past the permission step wrote in_progress, and
\* when all runs of a workflow have returned, the stored status is the one
\* written by the run that wrote last, whatever the others had written.
C27_LastWriterWins ==
  \A w \in WfIds :
    /\ \A r \in RunsOn(w) :
         eng[r].wrote # <<>> => eng[r].wrote[1] = [st |-> "in_progress", ok |-> TRUE]
    /\ (RunsOn(w) # {} /\ \A r \in RunsOn(w) : pc[r] = "done")
       => /\ LastEntry(w).by \in RunsOn(w)
          /\ LastEntry(w).msg \in {"completed", "failed"}
          /\ status[w] = LastWrite(LastEntry(w).by).st

\* Two runs on the same pending workflow both wrote in_progress and both
\* invoked the capability of its task; one wrote completed, the other wrote
\* failed after it, and failed is the stored status.
C27_Witness ==
  \E w \in WfIds : \E r, q \in RunsOn(w) :
    /\ r # q /\ pc[r] = "done" /\ pc[q] = "done"
    /\ eng[r].startedOn = "pending" /\ eng[q].startedOn = "pending"
    /\ eng[r].wrote[1].st = "in_progress" /\ eng[q].wrote[1].st = "in_progress"
    /\ Len(InvokedBy(r)) = Len(eng[r].tasks) /\ Len(InvokedBy(q)) = Len(eng[q].tasks)
    /\ LastWrite(r).st = "completed" /\ LastWrite(q).st = "failed"
    /\ LastEntry(w).by = q
    /\ status[w] = "failed"

\* The same race with the outcomes the other way round: completed is stored
\* over the failed of the run that returned first.
C27_WitnessCompletedLast ==
  \E w \in WfIds : \E r, q \in RunsOn(w) :
    /\ r # q /\ pc[r] = "done" /\ pc[q] = "done"
    /\ Len(InvokedBy(r)) = Len(eng[r].tasks) /\ Len(InvokedBy(q)) = Len(eng[q].tasks)
    /\ LastWrite(r).st = "failed" /\ LastWrite(q).st = "completed"
    /\ LastEntry(w).by = q
    /\ status[w] = "completed"

\* C28: a notifier operation that fails is swallowed, with either backend: no
\* await of the notifier raises into execute_workflow (the except clause is
\* never entered and nothing leaves the coroutine), and a run that wrote
\* in_progress still processes every task of its list and writes the status
\* its results call for.
C28_NotifierFailureSwallowed ==
  \A r \in RunIds :
    /\ ~eng[r].exc
    /\ eng[r].ret.kind # "raised"
    /\ (pc[r] = "done" /\ eng[r].wrote # <<>> /\ eng[r].wrote[1].ok)
       => /\ Len(eng[r].results) = Len(eng[r].tasks)
          /\ LastWrite(r).st =
               IF Successes(eng[r].results) > 0 \/ eng[r].tasks = <<>>
               THEN "completed" ELSE "failed"

\* The run's write of in_progress was not taken by the store.
StartWriteFailed(r) ==
  eng[r].wrote # <<>> /\ eng[r].wrote[1] = [st |-> "in_progress", ok |-> FALSE]

\* C29: a run whose write of in_progress failed ends with no further side
\* effect: it invokes no capability, appends no log entry, makes no other
\* status write, and does not report success.
C29_StartFailureAborts ==
  \A r \in RunIds :
    StartWriteFailed(r)
    => /\ InvokedBy(r) = <<>>
       /\ EntriesBy(r) = {}
       /\ Len(eng[r].wrote) = 1
       /\ eng[r].results = <<>>
       /\ pc[r] = "done" => ~eng[r].ret.success

\* The notifier operation the engine awaits at a position of execute_workflow
NotifierOp(p) ==
  IF p = "announce" THEN "announce"
  ELSE IF p \in {"upd_validating", "upd_permissions", "upd_startfail", "upd_starting",
                 "upd_notasks", "upd_executing", "upd_taskresult", "upd_outcome",
                 "exc_update"} THEN "update"
  ELSE IF p \in {"val_delete", "empty_delete", "out_delete", "exc_delete"} THEN "retire"
  ELSE IF p \in {"final1", "final2", "exc_final"} THEN "finalize"
  ELSE "none"

\* Run r completes the notifier operation of its position in this step (the
\* operation returned; a step in which it raises completes none).
Performs(r, op) ==
  /\ pc'[r] # pc[r]
  /\ ~Raises(r)
  /\ NotifierOp(pc[r]) = op

\* C30: within one run the thinking message is announced once and before any
\* update, it is retired before any finalize, and after it has been retired
\* the run performs no announce and no update.
C30_ThinkingLifecycle ==
  [][\A r \in RunIds :
       /\ Performs(r, "announce") => (eng[r].announces = 0 /\ eng[r].retires = 0)
       /\ Performs(r, "update") => (eng[r].announces = 1 /\ eng[r].retires = 0)
       /\ Performs(r, "finalize") => (eng[r].announces = 1 /\ eng[r].retires >= 1)]_vars

\* Run r is made by the OAuth callback in this step.
StartedByOAuth(r) == pc[r] = "new" /\ pc'[r] # "new" /\ eng'[r].caller = "oauth"

\* C31: the OAuth callback starts execute_workflow on one workflow only, the
\* pending one created last, with the background backend; the call itself
\* writes nothing to any workflow and invokes nothing, so with nothing
\* pending nothing is started; and the run it starts invokes capabilities
\* for its own workflow only.
C31_ResumesLatestPending ==
  [][/\ \A r \in RunIds :
          StartedByOAuth(r)
          => /\ status[eng'[r].wf] = "pending"
             /\ \A v \in WfIds : status[v] = "pending" => v <= eng'[r].wf
             /\ eng'[r].backend = "background"
             /\ pc'[r] = "announce"
             /\ \A q \in RunIds \ {r} : pc'[q] = pc[q] /\ eng'[q] = eng[q]
             /\ status' = status /\ log' = log /\ invoked' = invoked
     /\ \A j \in DOMAIN invoked' :
          eng'[invoked'[j].run].caller = "oauth"
          => invoked'[j].wf = eng'[invoked'[j].run].wf]_vars

\* The callback started a run on the later of two pending workflows; the
\* run invoked its capability while the earlier workflow is still pending
\* and untouched.
C31_Witness ==
  \E r \in RunIds :
    /\ eng[r].caller = "oauth" /\ eng[r].backend = "background"
    /\ eng[r].wf = 2 /\ eng[r].startedOn = "pending"
    /\ InvokedBy(r) # <<>>
    /\ status[1] = "pending" /\ log[1] = <<CreatedEntry>>
    /\ \A q \in RunIds \ {r} : pc[q] = "new"

\* The callback can be called for an owner none of whose workflows is pending.
C31_WitnessNothingPending ==
  /\ get_pending_workflows = {} /\ HasFresh /\ storeUp

\* The pair of the task an invocation was made for
PairOf(c) == ToolKey(eng[c.run].tasks[c.idx].action, eng[c.run].tasks[c.idx].mode)

C32_WitnessTwoPairs ==
  \E r \in RunIds :
    /\ Len(InvokedBy(r)) = 2
    /\ InvokedBy(r)[1].handle # InvokedBy(r)[2].handle
    /\ Len(eng[r].made) = 2

\* The value a capability is to get for field f of a task, as claimed
ClaimedArgument(task, f) ==
  IF /\ task.action = "email" /\ task.mode = "send"
     /\ f \in {"body", "cc", "bcc"} /\ task[f] \in {NoVal, Null}
  THEN "" ELSE task[f]

\* C33: the arguments are the task's fields other than action, unchanged,
\* but for body, cc and bcc of an email send task, which are "" when not
\* there or None; an email read task whose query is not there or empty
\* raises and does not reach the invocation.
C33_PreparedArguments ==
  probe.op = "prepare"
  => LET task == probe.task
         out == probe.out
     IN  /\ (task.action = "email" /\ task.mode = "read" /\ task.query \in {NoVal, ""})
            => (out.raised /\ probe.path = "bad_args")
         /\ ~out.raised
            => /\ DOMAIN out.args = DOMAIN task \ {"action"}
               /\ \A f \in DOMAIN out.args : out.args[f] = ClaimedArgument(task, f)
         /\ probe.path = "invoke" => ~out.raised

\* A send task with no body, a None cc and a given bcc was prepared.
C33_Witness ==
  /\ probe.op = "prepare"
  /\ probe.task.action = "email" /\ probe.task.mode = "send"
  /\ probe.task.body = NoVal /\ probe.task.cc = Null /\ probe.task.bcc = "x"
  /\ probe.out.args.body = "" /\ probe.out.args.cc = "" /\ probe.out.args.bcc = "x"
  /\ probe.path = "invoke"

\* A read task with an empty query was rejected.
C33_WitnessRead ==
  /\ probe.op = "prepare"
  /\ probe.task.action = "email" /\ probe.task.mode = "read" /\ probe.task.query = ""
  /\ probe.out.raised

\* C34: no step of an engine instance, from the load on, changes the
\* owner's token document, a refresh of expired credentials inside a
\* capability included.  (The step in which the OAuth callback saves the
\* tokens and then makes and loads an engine is the callback's write.)
C34_GrantedUntouched ==
  [][(\E r \in RunIds :
        pc'[r] # pc[r] /\ (pc[r] # "new" \/ eng'[r].caller # "oauth"))
       => granted' = granted]_vars

\* A run whose capability refreshed its credentials has returned.
C34_Witness ==
  \E r \in RunIds :
    /\ pc[r] = "done" /\ eng[r].ret.kind = "pair"
    /\ \E j \in DOMAIN InvokedBy(r) : InvokedBy(r)[j].refreshed /\ InvokedBy(r)[j].out = "ok"
    /\ granted.scope # {}

\* Every status write run r made was taken by the store.
WritesSucceeded(r) == \A j \in DOMAIN eng[r].wrote : eng[r].wrote[j].ok

\* C35: when every store write of a run succeeded, the run that has ended
\* wrote completed or failed last, and that is a status the store holds for
\* its workflow: the workflow is not left in in_progress.
C35_EndsInTerminalStatus ==
  \A r \in RunIds :
    (pc[r] = "done" /\ WritesSucceeded(r))
    => /\ eng[r].wrote # <<>>
       /\ LastWrite(r).st \in {"completed", "failed"}
       /\ StoredStatus(eng[r].wf) # "in_progress"

\* The positions in the status writes of run r at which one of sts was written
WritesOf(r, sts) == {j \in DOMAIN eng[r].wrote : eng[r].wrote[j].st \in sts}

\* C36: one run writes in_progress at most once and completed or failed at
\* most once, never pending or cancelled, and completed only after its own
\* in_progress.
C36_WritesOfOneRun ==
  \A r \in RunIds :
    /\ Cardinality(WritesOf(r, {"in_progress"})) <= 1
    /\ Cardinality(WritesOf(r, {"completed", "failed"})) <= 1
    /\ WritesOf(r, {"pending", "cancelled"}) = {}
    /\ \A j \in WritesOf(r, {"completed"}) :
         \E k \in WritesOf(r, {"in_progress"}) : k < j

\* A run that wrote in_progress, then completed.
C36_Witness ==
  \E r \in RunIds :
    /\ pc[r] = "done"
    /\ eng[r].wrote = <<[st |-> "in_progress", ok |-> TRUE], [st |-> "completed", ok |-> TRUE]>>

\* A run that wrote failed alone: its list did not pass the validation.
C36_WitnessFailedAlone ==
  \E r \in RunIds :
    /\ pc[r] = "done"
    /\ eng[r].wrote = <<[st |-> "failed", ok |-> TRUE]>>

\* C37: start_execution, complete_execution and fail_execution append their
\* entry only when their status write succeeded; when it failed they report
\* failure and leave the log (and the status) as they were, so an entry of
\* theirs in the log means its status was written.
C37_LogOnlyAfterStatus ==
  probe.op = "lifecycle" =>
    /\ probe.out.log # probe.doc.log
         => /\ probe.statusOk
            /\ probe.out.status = LifecycleStatus(probe.call)
            /\ probe.out.log = Append(probe.doc.log, LifecycleEntry(probe.call, probe.code))
    /\ ~probe.statusOk
         => /\ ~probe.out.ret.success
            /\ probe.out.log = probe.doc.log
            /\ probe.out.status = probe.doc.status
    /\ (probe.statusOk /\ probe.logOk) => probe.out.log # probe.doc.log
    /\ probe.out.ret.success = probe.statusOk

\* fail_execution whose status write failed while the log write would have
\* gone through
C37_Witness ==
  /\ probe.op = "lifecycle"
  /\ probe.call = "fail"
  /\ probe.code = "EXECUTION_ERROR"
  /\ ~probe.statusOk
  /\ probe.logOk
  /\ probe.doc.log # <<>>

\* complete_execution of the engine whose two writes went through
C37_WitnessWritten ==
  /\ probe.op = "lifecycle"
  /\ probe.call = "complete"
  /\ probe.cls = "EnhancedWorkflowExecutor"
  /\ probe.statusOk
  /\ probe.logOk
  /\ probe.out.ret.kind = "pair"

\* Email tasks in send or read mode, and nothing else
SendOrReadOnly(tasks) ==
  \A j \in DOMAIN tasks : tasks[j].action = "email" /\ tasks[j].mode \in {"send", "read"}

\* C38: for a workflow of email tasks in send or read mode, when the gate
\* finds no scope missing, the scope check of each task's capability passes
\* too; the gate's set for a mode contains what the capability declares.
C38_GateCoversCapabilities ==
  (probe.op = "gate" /\ SendOrReadOnly(probe.tasks)) =>
    \A j \in DOMAIN probe.tasks :
      /\ probe.tool[j] # NoTool
      /\ required_scopes(probe.tool[j]) \subseteq TaskScopes(probe.tasks[j])
      /\ probe.missing = {} => probe.passes[j]

\* A workflow that sends and reads, and an owner who granted what the gate
\* asks for and no more
C38_Witness ==
  /\ probe.op = "gate"
  /\ SendOrReadOnly(probe.tasks)
  /\ {probe.tasks[j].mode : j \in DOMAIN probe.tasks} = {"send", "read"}
  /\ probe.missing = {}
  /\ probe.tokens.scope = {"gmail.send", "gmail.compose", "gmail.readonly"}
  /\ \A j \in DOMAIN probe.tasks : probe.passes[j]

\* The same workflow and an owner who granted the scopes of sending alone:
\* the gate finds a scope missing and the reading capability's check fails.
C38_WitnessMissing ==
  /\ probe.op = "gate"
  /\ SendOrReadOnly(probe.tasks)
  /\ probe.tokens.scope = {"gmail.send", "gmail.compose"}
  /\ probe.missing = {"gmail.readonly"}
  /\ \E j \in DOMAIN probe.tasks : ~probe.passes[j]

NoConversation(tasks) == \A j \in DOMAIN tasks : tasks[j].action # "conversation"

\* C39: on a list without a conversation task, validate_workflow and
\* _validate_email_tasks report missing fields for the same lists and with
\* the same message, so a list the chat handler admits passes the engine's
\* validation.
C39_ValidationsAgree ==
  (probe.op = "validate_both" /\ NoConversation(probe.tasks)) =>
    /\ probe.chat.is_workflow
    /\ (probe.chat.missing # <<>>) <=> (probe.out # <<>>)
    /\ probe.chat_message = probe.message
    /\ probe.chat_message = <<>> => probe.out = <<>>

\* A list whose first task lacks recipient and subject and whose second, a
\* read, has a placeholder for its query: both name three fields.
C39_Witness ==
  /\ probe.op = "validate_both"
  /\ NoConversation(probe.tasks)
  /\ probe.out = <<"recipient", "subject", "query">>
  /\ probe.chat.missing = <<"recipient", "subject", "query">>
  /\ Len(probe.message) = 7

\* A list both admit, with a padded recipient
C39_WitnessAdmitted ==
  /\ probe.op = "validate_both"
  /\ Len(probe.tasks) = 2
  /\ \A j \in DOMAIN probe.tasks : probe.tasks[j].action = "email"
  /\ probe.tasks[1].recipient = " a@b.com "
  /\ probe.chat_message = <<>>
  /\ probe.out = <<>>

\* A list with a conversation task: the chat handler does not treat it as a
\* workflow, whatever the engine's validation would say.
C39_WitnessConversation ==
  /\ probe.op = "validate_both"
  /\ ~NoConversation(probe.tasks)
  /\ ~probe.chat.is_workflow
  /\ probe.out = <<>>

\* The scopes a save supplies: the words of its string or the elements of
\* its list
SuppliedScopes(scope) ==
  IF scope.kind \in {"str", "list"} THEN SeqRange(scope.val) \ {" "} ELSE {}

\* C40: after any sequence of save_google_tokens calls for one owner the
\* stored scopes are the union of the scopes of all the saves, each once,
\* whether a save gave them as a list or as a space-separated string; no
\* save removes a scope.
C40_ScopesAccumulate ==
  probe.op = "save" =>
    /\ probe.stored.scope.kind = "list"
    /\ SeqRange(probe.stored.scope.val)
         = UNION {SuppliedScopes(probe.saves[j]) : j \in DOMAIN probe.saves}
    /\ Cardinality(SeqRange(probe.stored.scope.val)) = Len(probe.stored.scope.val)
    /\ SeqRange(probe.before.scope.val) \subseteq SeqRange(probe.stored.scope.val)
    /\ probe.merged.scope = SeqRange(probe.stored.scope.val)

\* Three saves, a string, a list and a string with two blanks, that leave
\* three scopes stored
C40_Witness ==
  /\ probe.op = "save"
  /\ Len(probe.saves) = 3
  /\ probe.saves[1].kind = "str"
  /\ probe.saves[2] = ScopeList(<<"gmail.compose", "gmail.compose">>)
  /\ probe.saves[3] = ScopeStr(<<"gmail.readonly", " ", " ", "gmail.send">>)
  /\ Len(probe.stored.scope.val) = 3

\* A save without a scope field after one with two scopes: both are kept.
C40_WitnessNoField ==
  /\ probe.op = "save"
  /\ Len(probe.saves) = 2
  /\ probe.saves[2] = ScopeAbsent
  /\ Len(probe.before.scope.val) = 2
  /\ Len(probe.stored.scope.val) = 2

====
